---- MODULE Spec2Model ----
(***************************************************************************)
(* Quota allocation engine of AgriBalance: AdminQuota / RegionLimit        *)
(* counters, the quota resolver, the start-cultivation route,              *)
(* Cultivation.cancel_cultivation and validate_harvest_submission, the     *)
(* status update and the admin quota forms.                                *)
(*                                                                         *)
(* Areas are Python floats in the source.  They are modelled as integers   *)
(* (multiples of one area unit); float rounding is not modelled.           *)
(* A nullable column is NULL or a value; an Optional float is <<>> (None)  *)
(* or <<v>>.                                                               *)
(***************************************************************************)
EXTENDS Integers, Sequences, FiniteSets, TLC

VARIABLES quotas, limits, cults, reqs, last,
          harvest_sales, crop_listings, crop_prices, submitting

vars == <<quotas, limits, cults, reqs, last,
          harvest_sales, crop_listings, crop_prices, submitting>>

\* The selling side: the tables of harvest sale submissions, crop listings
\* and admin-set crop prices, and the submit-harvest requests in flight.
market == <<harvest_sales, crop_listings, crop_prices, submitting>>

MaxSubmits == 2

SubmitIds == 1..MaxSubmits

\* A submit-harvest request is idle, or validated and about to insert its
\* HarvestSale.
IdleSubmit ==
    [pc |-> "idle", cultivation_id |-> 0, actual_yield |-> 0,
     selling_quantity |-> 0]

\* No harvest was submitted, nothing is listed and no price is set.
EmptyMarket ==
    /\ harvest_sales = <<>>
    /\ crop_listings = <<>>
    /\ crop_prices = <<>>
    /\ submitting = [s \in SubmitIds |-> IdleSubmit]

(* ------------------------------ bounds -------------------------------- *)
MaxQuotas == 1
MaxLimits == 1
MaxCults == 2
MaxArea == 2
MaxTotal == 3
MaxLedgerOps == 4

(* ------------------------------ values -------------------------------- *)
NULL == "NULL"

None == <<>>

Some(v) == <<v>>

\* Python truthiness of an Optional float: None and 0.0 are falsy.
TruthyNum(m) == m # None /\ m[1] # 0

\* Python truthiness of a nullable string: None and '' are falsy.
TruthyStr(s) == s # NULL /\ s # ""

Max0(x) == IF x > 0 THEN x ELSE 0

QuotaIds == 1..MaxQuotas

LimitIds == 1..MaxLimits

(* --------------------------- AdminQuota ------------------------------- *)
\* A row of admin_quotas as the AdminQuota constructor leaves it:
\* allocated_area and allocated_farmer_count default to 0, and the form's
\* harvest season dates were left blank.
NewQuota(loc, crop, total, mpf, active) ==
    [present |-> TRUE,
     country |-> loc.country, state |-> loc.state, district |-> loc.district,
     taluk |-> loc.taluk, village |-> loc.village,
     crop_name |-> crop,
     total_allowed_area |-> total,
     max_per_farmer |-> mpf,
     allocated_area |-> 0,
     allocated_farmer_count |-> 0,
     harvest_season_start |-> None,
     harvest_season_end |-> None,
     is_active |-> active]

NoQuota ==
    [present |-> FALSE,
     country |-> NULL, state |-> NULL, district |-> NULL,
     taluk |-> NULL, village |-> NULL,
     crop_name |-> NULL,
     total_allowed_area |-> 0,
     max_per_farmer |-> None,
     allocated_area |-> 0,
     allocated_farmer_count |-> 0,
     harvest_season_start |-> None,
     harvest_season_end |-> None,
     is_active |-> FALSE]

remaining_area(q) == q.total_allowed_area - q.allocated_area

is_quota_available(q, requested_area) ==
    IF ~q.is_active
    THEN [ok |-> FALSE, reason |-> "Quota is not active"]
    ELSE IF remaining_area(q) < requested_area
    THEN [ok |-> FALSE, reason |-> "Only remaining available"]
    ELSE IF TruthyNum(q.max_per_farmer) /\ requested_area > q.max_per_farmer[1]
    THEN [ok |-> FALSE, reason |-> "Maximum per farmer"]
    ELSE [ok |-> TRUE, reason |-> "Quota available"]

\* allocate_area with the guard off by one: the boundary request is refused.
allocate_area_strict(q, area, increment_farmer_count) ==
    IF q.allocated_area + area >= q.total_allowed_area
    THEN [raised |-> TRUE, q |-> q]
    ELSE [raised |-> FALSE,
          q |-> [q EXCEPT
                   !.allocated_area = @ + area,
                   !.allocated_farmer_count =
                       IF increment_farmer_count THEN @ + 1 ELSE @]]

\* allocate_area raises ValueError (raised = TRUE, row untouched) or
\* updates the two counters.
allocate_area(q, area, increment_farmer_count) ==
    IF q.allocated_area + area > q.total_allowed_area
    THEN [raised |-> TRUE, q |-> q]
    ELSE [raised |-> FALSE,
          q |-> [q EXCEPT
                   !.allocated_area = @ + area,
                   !.allocated_farmer_count =
                       IF increment_farmer_count THEN @ + 1 ELSE @]]

\* release_area without the floor at zero.
release_area_unclamped(q, area, decrement_farmer_count) ==
    [q EXCEPT
       !.allocated_area = @ - area,
       !.allocated_farmer_count =
           IF decrement_farmer_count THEN @ - 1 ELSE @]

release_area(q, area, decrement_farmer_count) ==
    [q EXCEPT
       !.allocated_area = Max0(@ - area),
       !.allocated_farmer_count =
           IF decrement_farmer_count THEN Max0(@ - 1) ELSE @]

\* What the last call answered.  For a direct call of a Ledger method on
\* quota 1: its arguments, whether it raised / what it returned, and the
\* counters it found.  For a start-cultivation request: op "start", ok and
\* the message flashed.  who is the farmer or the row the call was about.
NoCall ==
    [op |-> "none", n |-> 0, area |-> 0, flag |-> FALSE, raised |-> FALSE,
     ok |-> FALSE, reason |-> "", before |-> <<0, 0>>, who |-> 0]

Counters(q) == <<q.allocated_area, q.allocated_farmer_count>>

(* ------------------------- fixed reference data ----------------------- *)
\* Locations an admin form or a land can carry.
DistrictLoc ==
    [country |-> "IN", state |-> "TN", district |-> "D1",
     taluk |-> NULL, village |-> NULL]

Crops == {"Rice"}

\* Values a form can carry for max_per_farmer: blank (None), "0", a cap.
MpfInputs == {None, Some(0), Some(1)}

\* Areas a form can carry: float() accepts negative numbers and zero.
AreaInputs == (0 - 1)..MaxArea

\* Areas of well-formed requests.
PositiveAreas == 1..MaxArea

\* Totals an admin enters for a quota or a region limit.
TotalInputs == 0..MaxTotal


(* ------------------------------ lands --------------------------------- *)
\* The lands table is read-only for the engine: two farmers with one land
\* each in village V1 of district D1, and a third land of farmer 2 entered
\* with its country only.
Lands ==
    <<[user_id |-> 1, land_size |-> MaxArea, country |-> "IN", state |-> "TN",
       district |-> "D1", taluk |-> "T1", village |-> "V1"],
      [user_id |-> 2, land_size |-> 1, country |-> "IN", state |-> "TN",
       district |-> "D1", taluk |-> "T1", village |-> "V1"],
      [user_id |-> 2, land_size |-> 1, country |-> "IN", state |-> NULL,
       district |-> NULL, taluk |-> NULL, village |-> NULL]>>

AllLandIds == 1..Len(Lands)

\* The lands with a district, on which the farmers start cultivations
\* except where a specification says otherwise.
LandIds == {l \in AllLandIds : TruthyStr(Lands[l].district)}

\* A farmer has at most one start-cultivation request in flight per land.
ReqIds == AllLandIds

(* ---------------------------- RegionLimit ----------------------------- *)
NewLimit(district, crop, max_area, max_count, active) ==
    [present |-> TRUE, district |-> district, crop_name |-> crop,
     max_area |-> max_area, max_cultivation_count |-> max_count,
     current_area_used |-> 0, current_cultivation_count |-> 0,
     is_active |-> active]

NoLimit ==
    [present |-> FALSE, district |-> NULL, crop_name |-> NULL,
     max_area |-> 0, max_cultivation_count |-> 0,
     current_area_used |-> 0, current_cultivation_count |-> 0,
     is_active |-> FALSE]

LimitCounters(l) == <<l.current_area_used, l.current_cultivation_count>>

\* RegionLimit.query.filter_by(crop_name, district, is_active=True): the
\* rows .first() may return.
ActiveLimits(lims, crop, district) ==
    {i \in LimitIds : /\ lims[i].present /\ lims[i].is_active
                      /\ lims[i].crop_name = crop
                      /\ lims[i].district = district}

\* check_region_limits without the farmer-count rule.
region_limit_allows_area_only(lim, area_needed) ==
    ~(area_needed > lim.max_area - lim.current_area_used)

\* check_region_limits on the row the query returned.
region_limit_allows(lim, area_needed) ==
    IF area_needed > lim.max_area - lim.current_area_used
    THEN FALSE
    ELSE IF lim.max_cultivation_count > 0
            /\ lim.current_cultivation_count >= lim.max_cultivation_count
    THEN FALSE
    ELSE TRUE

(* --------------------------- Quota Resolver --------------------------- *)
ActiveFor(qs, crop) ==
    {i \in DOMAIN qs : qs[i].present /\ qs[i].is_active /\ qs[i].crop_name = crop}

\* The resolver asking the district level before the village and taluk
\* levels.
find_matching_quota_district_first(qs, land, crop) ==
    LET A == ActiveFor(qs, crop)
        village == IF TruthyStr(land.village)
                   THEN {i \in A : qs[i].village = land.village}
                   ELSE {}
        taluk == IF TruthyStr(land.taluk)
                 THEN {i \in A : qs[i].taluk = land.taluk /\ qs[i].village = NULL}
                 ELSE {}
        district == IF TruthyStr(land.district)
                    THEN {i \in A : /\ qs[i].district = land.district
                                    /\ qs[i].taluk = NULL /\ qs[i].village = NULL}
                    ELSE {}
        state == IF TruthyStr(land.state)
                 THEN {i \in A : /\ qs[i].state = land.state
                                 /\ qs[i].district = NULL
                                 /\ qs[i].taluk = NULL /\ qs[i].village = NULL}
                 ELSE {}
        country == {i \in A : /\ qs[i].country = land.country
                              /\ qs[i].state = NULL /\ qs[i].district = NULL
                              /\ qs[i].taluk = NULL /\ qs[i].village = NULL}
    IN IF district # {} THEN district
       ELSE IF village # {} THEN village
       ELSE IF taluk # {} THEN taluk
       ELSE IF state # {} THEN state
       ELSE country

\* The rows each of the five queries of find_matching_quota can return; the
\* result is the first non-empty level (.first() picks one row of it), the
\* empty set standing for None.
find_matching_quota(qs, land, crop) ==
    LET A == ActiveFor(qs, crop)
        village == IF TruthyStr(land.village)
                   THEN {i \in A : qs[i].village = land.village}
                   ELSE {}
        taluk == IF TruthyStr(land.taluk)
                 THEN {i \in A : qs[i].taluk = land.taluk /\ qs[i].village = NULL}
                 ELSE {}
        district == IF TruthyStr(land.district)
                    THEN {i \in A : /\ qs[i].district = land.district
                                    /\ qs[i].taluk = NULL /\ qs[i].village = NULL}
                    ELSE {}
        state == IF TruthyStr(land.state)
                 THEN {i \in A : /\ qs[i].state = land.state
                                 /\ qs[i].district = NULL
                                 /\ qs[i].taluk = NULL /\ qs[i].village = NULL}
                 ELSE {}
        country == {i \in A : /\ qs[i].country = land.country
                              /\ qs[i].state = NULL /\ qs[i].district = NULL
                              /\ qs[i].taluk = NULL /\ qs[i].village = NULL}
    IN IF village # {} THEN village
       ELSE IF taluk # {} THEN taluk
       ELSE IF district # {} THEN district
       ELSE IF state # {} THEN state
       ELSE country

(* --------------------------- Cultivation ------------------------------ *)
\* quota_id 0 is a NULL quota reference.  The crop has no active CropMaster
\* row, so that no yield is estimated.
NewCultivation(user, land, quota, crop, area) ==
    [user_id |-> user, land_id |-> land, quota_id |-> quota,
     crop_name |-> crop, area_used |-> area, status |-> "planned",
     estimated_yield |-> None, max_allowed_sale_quantity |-> None,
     actual_yield |-> None]

CultIds == 1..Len(cults)

(* ------------------------ requests in flight -------------------------- *)
\* A start-cultivation request between its checks and its commit holds the
\* rows its session loaded: the matched quota (or limit) and the counters
\* read from it.  pc: idle, checked.
IdleReq ==
    [pc |-> "idle", crop_name |-> NULL, area |-> 0,
     quota_id |-> 0, limit_id |-> 0, snap |-> <<0, 0>>]

\* The response of a start-cultivation request.
Answer(ok, reason) ==
    [NoCall EXCEPT !.op = "start", !.ok = ok, !.reason = reason]

InFlight == {r \in ReqIds : reqs[r].pc = "checked"}


(* ======================= the request handlers ========================= *)
Init ==
    /\ quotas = [i \in QuotaIds |-> NoQuota]
    /\ limits = [i \in LimitIds |-> NoLimit]
    /\ cults = <<>>
    /\ reqs = [r \in ReqIds |-> IdleReq]
    /\ last = NoCall
    /\ EmptyMarket

QuotaLocs == {DistrictLoc}

\* admin.add_quota: a new row with the form's values.
add_quota(loc, crop, total, mpf, active) ==
    /\ \E i \in QuotaIds :
         /\ ~quotas[i].present
         /\ \A j \in QuotaIds : j < i => quotas[j].present
         /\ quotas' = [quotas EXCEPT ![i] = NewQuota(loc, crop, total, mpf, active)]
    /\ UNCHANGED <<limits, cults, reqs, last>>
    /\ UNCHANGED market

\* The response of an admin request on row i.
AdminAnswer(op, i, ok) ==
    [NoCall EXCEPT !.op = op, !.who = i, !.ok = ok]

\* The quota integrity rule with the comparison turned into <=.
violates_integrity_strict(q, new_total_allowed_area) ==
    new_total_allowed_area <= q.allocated_area

\* edit_quota, the quota integrity rule.
violates_integrity(q, new_total_allowed_area) ==
    new_total_allowed_area < q.allocated_area

\* datetime.strptime(text, '%Y-%m-%d').date(): the texts that parse and the
\* day each of them denotes; every other text raises ValueError.
ParsedDays ==
    [t \in {"0001-01-01", "0001-01-02", "0001-01-03", "0001-01-04"} |->
       CASE t = "0001-01-01" -> 1
         [] t = "0001-01-02" -> 2
         [] t = "0001-01-03" -> 3
         [] t = "0001-01-04" -> 4]

strptime(text) ==
    IF text \in DOMAIN ParsedDays THEN Some(ParsedDays[text]) ELSE None

\* The text of a day in the format %Y-%m-%d.
DayText(day) == CHOOSE t \in DOMAIN ParsedDays : ParsedDays[t] = day

\* The form of edit_quota as the edit page posts it for row q when the
\* admin changes the total, the per-farmer cap and the active box only:
\* the season, scope and crop fields carry the row's values.
QuotaForm(q, total, mpf, active) ==
    [harvest_season_start |->
         IF q.harvest_season_start = None THEN ""
         ELSE DayText(q.harvest_season_start[1]),
     harvest_season_end |->
         IF q.harvest_season_end = None THEN ""
         ELSE DayText(q.harvest_season_end[1]),
     country |-> q.country, state |-> q.state, district |-> q.district,
     taluk |-> q.taluk, village |-> q.village, crop_name |-> q.crop_name,
     total_allowed_area |-> total, max_per_farmer |-> mpf,
     is_active |-> active]

\* A refused edit leaving the assignments it had made on the row.
rejected_edit_saved(row, session_row) == session_row

\* edit_quota returning before db.session.commit(): the assignments made on
\* the loaded object go with the request's session, the stored row stays.
rejected_edit(row, session_row) == row

\* admin.edit_quota: the season dates are parsed and assigned, then the
\* scope and the crop, then the quota integrity rule is asked, then the
\* remaining assignments and the commit.  A refused edit returns before the
\* commit.  The answer keeps the new total asked for, the allocated area
\* and total the request found and, for a refused edit, whether the loaded
\* object had been assigned to (flag).
edit_quota(i, form) ==
    /\ quotas[i].present
    /\ LET row == quotas[i]
           found == <<row.allocated_area, row.total_allowed_area>>
           harvest_start == strptime(form.harvest_season_start)
           harvest_end == strptime(form.harvest_season_end)
           with_start == [row EXCEPT !.harvest_season_start = harvest_start]
           with_end == [with_start EXCEPT !.harvest_season_end = harvest_end]
           scoped == [with_end EXCEPT
                        !.country = form.country, !.state = form.state,
                        !.district = form.district, !.taluk = form.taluk,
                        !.village = form.village,
                        !.crop_name = form.crop_name]
           saved == [scoped EXCEPT
                       !.total_allowed_area = form.total_allowed_area,
                       !.max_per_farmer = form.max_per_farmer,
                       !.is_active = form.is_active]
           answer(ok, reason) ==
              [AdminAnswer("edit_quota", i, ok) EXCEPT
                 !.area = form.total_allowed_area, !.before = found,
                 !.reason = reason]
           reject(reason, session_row) ==
              /\ quotas' = [quotas EXCEPT
                              ![i] = rejected_edit(row, session_row)]
              /\ last' = [answer(FALSE, reason) EXCEPT
                            !.flag = session_row # row]
       IN IF form.harvest_season_start # "" /\ harvest_start = None
          THEN reject("Invalid harvest season start date format", row)
          ELSE IF form.harvest_season_end # "" /\ harvest_end = None
          THEN reject("Invalid harvest season end date format", with_start)
          ELSE IF violates_integrity(scoped, form.total_allowed_area)
          THEN reject("Cannot reduce total allowed area", scoped)
          ELSE /\ quotas' = [quotas EXCEPT ![i] = saved]
               /\ last' = answer(TRUE, "")
    /\ UNCHANGED <<limits, cults, reqs>>
    /\ UNCHANGED market

\* No cultivation is seen using the quota.
active_cultivations_unseen(i) == {}

\* delete_quota: the cultivations of the quota with an active status.
active_cultivations(i) ==
    {c \in CultIds : /\ cults[c].quota_id = i
                     /\ cults[c].status \in {"planned", "active"}}

\* admin.delete_quota: refused while active cultivations use the quota;
\* otherwise the row is deleted and the ORM sets quota_id of the
\* cultivations that still reference it to NULL in the same commit.
delete_quota(i) ==
    /\ quotas[i].present
    /\ IF active_cultivations(i) # {}
       THEN /\ UNCHANGED <<quotas, cults>>
            /\ last' = AdminAnswer("delete_quota", i, FALSE)
       ELSE /\ quotas' = [quotas EXCEPT ![i] = NoQuota]
            /\ cults' = [c \in CultIds |->
                           IF cults[c].quota_id = i
                           THEN [cults[c] EXCEPT !.quota_id = 0]
                           ELSE cults[c]]
            /\ last' = AdminAnswer("delete_quota", i, TRUE)
    /\ UNCHANGED <<limits, reqs>>
    /\ UNCHANGED market

\* admin.add_limit
add_limit(district, crop, max_area, max_count, active) ==
    /\ \E i \in LimitIds :
         /\ ~limits[i].present
         /\ \A j \in LimitIds : j < i => limits[j].present
         /\ limits' = [limits EXCEPT
                         ![i] = NewLimit(district, crop, max_area, max_count, active)]
    /\ UNCHANGED <<quotas, cults, reqs, last>>
    /\ UNCHANGED market

\* The area validation left out.
exceeds_land_size_unchecked(area_requested, land) == FALSE

\* start_cultivation, the area validation.
exceeds_land_size(area_requested, land) == area_requested > land.land_size

\* start_cultivation up to the quota decision: the area validation and
\* check_admin_quota.  The request is refused, or goes on holding the rows
\* it has loaded.
StartCheck(l, crop, area) ==
    /\ reqs[l].pc = "idle"
    /\ Len(cults) + Cardinality(InFlight) < MaxCults
    /\ LET land == Lands[l]
           found == find_matching_quota(quotas, land, crop)
           district == IF TruthyStr(land.district) THEN land.district ELSE "Other"
           lims == ActiveLimits(limits, crop, district)
           held == [IdleReq EXCEPT !.pc = "checked", !.crop_name = crop,
                                   !.area = area]
           refuse(reason) == /\ last' = Answer(FALSE, reason)
                             /\ UNCHANGED reqs
           pass(h) == /\ reqs' = [reqs EXCEPT ![l] = h]
                      /\ last' = Answer(TRUE, "checked")
       IN IF exceeds_land_size(area, land)
          THEN refuse("Cultivation area cannot exceed land size")
          ELSE IF found # {}
          THEN \E q \in found :
                 LET a == is_quota_available(quotas[q], area)
                 IN IF a.ok
                    THEN pass([held EXCEPT !.quota_id = q,
                                           !.snap = Counters(quotas[q])])
                    ELSE refuse(a.reason)
          ELSE IF lims # {}
          THEN \E m \in lims :
                 IF region_limit_allows(limits[m], area)
                 THEN pass([held EXCEPT !.limit_id = m,
                                        !.snap = LimitCounters(limits[m])])
                 ELSE refuse("Region limit reached")
          ELSE pass(held)
    /\ UNCHANGED <<quotas, limits, cults>>
    /\ UNCHANGED market

\* The reservation as an in-place increment of the stored row (an UPDATE
\* ... SET allocated_area = allocated_area + :area), with no condition.
reserve_quota_in_place(row, snap, area) ==
    [row EXCEPT !.allocated_area = @ + area,
                !.allocated_farmer_count = @ + 1]

\* The cultivation row committed without the counter update.
reserve_quota_skipped(row, snap, area) == row

\* quota_obj.allocated_area += area_requested; allocated_farmer_count += 1
\* on the object the session loaded at the check: the UPDATE carries the
\* values computed from the counters read then.
reserve_quota(row, snap, area) ==
    [row EXCEPT !.allocated_area = snap[1] + area,
                !.allocated_farmer_count = snap[2] + 1]

\* region_limit.current_area_used += area_requested; count += 1.
reserve_limit(row, snap, area) ==
    [row EXCEPT !.current_area_used = snap[1] + area,
                !.current_cultivation_count = snap[2] + 1]

\* start_cultivation from the Cultivation row to db.session.commit(): the
\* INSERT and the counter UPDATE are one transaction.
StartCommit(r) ==
    /\ reqs[r].pc = "checked"
    /\ LET q == reqs[r].quota_id
           land == Lands[r]
           area == reqs[r].area
           crop == reqs[r].crop_name
           lims == IF TruthyStr(land.district)
                   THEN ActiveLimits(limits, crop, land.district)
                   ELSE {}
       IN /\ cults' = Append(cults,
                 NewCultivation(land.user_id, r, q, crop, area))
          /\ IF q # 0
             THEN /\ quotas[q].present
                  /\ quotas' = [quotas EXCEPT
                                  ![q] = reserve_quota(@, reqs[r].snap, area)]
                  /\ UNCHANGED limits
             ELSE IF lims # {}
             THEN /\ \E m \in lims :
                       limits' = [limits EXCEPT ![m] =
                                    reserve_limit(@,
                                        IF m = reqs[r].limit_id
                                        THEN reqs[r].snap
                                        ELSE LimitCounters(limits[m]),
                                        area)]
                  /\ UNCHANGED quotas
             ELSE UNCHANGED <<quotas, limits>>
    /\ reqs' = [reqs EXCEPT ![r] = IdleReq]
    /\ last' = Answer(TRUE, "Cultivation started successfully")
    /\ UNCHANGED market

\* An exception inside the try block (a date that does not parse, a storage
\* fault): db.session.rollback(), nothing is written.
StartCommitFail(r) ==
    /\ reqs[r].pc = "checked"
    /\ reqs' = [reqs EXCEPT ![r] = IdleReq]
    /\ last' = Answer(FALSE, "Error starting cultivation")
    /\ UNCHANGED <<quotas, limits, cults>>
    /\ UNCHANGED market

\* Releasing a negative area raises a counter: the model stops following a
\* counter beyond AreaCap.
AreaCap == MaxTotal + MaxArea

\* The cancellation refusing nothing.
cannot_cancel_never(cu) == FALSE

\* cancel_cultivation: a harvested cultivation cannot be cancelled.
cannot_cancel(cu) == cu.status = "harvested"

\* What a call of cancel_cultivation on cultivation c did: raised
\* ValueError, or returned.
CancelAnswer(c, raised) ==
    [NoCall EXCEPT !.op = "cancel", !.who = c, !.raised = raised]

\* Cultivation.cancel_cultivation followed by the caller's commit.  On a
\* harvested cultivation it raises and nothing changes.
cancel_cultivation(c) ==
    LET cu == cults[c]
        land == Lands[cu.land_id]
        q == cu.quota_id
        lims == IF TruthyStr(land.district)
                THEN ActiveLimits(limits, cu.crop_name, land.district)
                ELSE {}
    IN IF cannot_cancel(cu)
       THEN /\ last' = CancelAnswer(c, TRUE)
            /\ UNCHANGED <<quotas, limits, cults, reqs>>
            /\ UNCHANGED market
       ELSE /\ quotas' = IF q # 0 /\ quotas[q].present
                         THEN [quotas EXCEPT
                                 ![q] = release_area(@, cu.area_used, TRUE)]
                         ELSE quotas
            /\ IF lims # {}
               THEN \E m \in lims :
                      limits' = [limits EXCEPT ![m] =
                         [@ EXCEPT
                            !.current_area_used = Max0(@ - cu.area_used),
                            !.current_cultivation_count = Max0(@ - 1)]]
               ELSE UNCHANGED limits
            /\ \A i \in QuotaIds : quotas'[i].allocated_area <= AreaCap
            /\ \A i \in LimitIds : limits'[i].current_area_used <= AreaCap
            /\ cults' = [cults EXCEPT ![c].status = "cancelled"]
            /\ last' = CancelAnswer(c, FALSE)
            /\ UNCHANGED reqs
            /\ UNCHANGED market

StatusInputs == {"planned", "active", "harvested", "failed"}

\* update_status releasing the reserved area when the cultivation is
\* harvested or failed.
update_status_releasing(c, new_status, actual_yield) ==
    /\ cults' = [cults EXCEPT ![c].status = new_status]
    /\ LET q == cults[c].quota_id
       IN quotas' = IF q # 0 /\ new_status \in {"harvested", "failed"}
                    THEN [quotas EXCEPT
                            ![q] = release_area(@, cults[c].area_used, TRUE)]
                    ELSE quotas
    /\ UNCHANGED <<limits, reqs, last>>
    /\ UNCHANGED market

\* cultivation.update_status: a status of the list is assigned, any other
\* is ignored; with harvested, a filled actual_yield field is stored.
update_status(c, new_status, actual_yield) ==
    /\ cults' = IF new_status \notin StatusInputs THEN cults
                ELSE IF new_status = "harvested" /\ actual_yield # None
                THEN [cults EXCEPT ![c].status = new_status,
                                   ![c].actual_yield = actual_yield]
                ELSE [cults EXCEPT ![c].status = new_status]
    /\ UNCHANGED <<quotas, limits, reqs, last>>
    /\ UNCHANGED market

\* The admin creates quotas and the farmers start, update and cancel
\* cultivations; the region_limits table stays empty.
Next ==
    \/ \E loc \in QuotaLocs, crop \in Crops, total \in TotalInputs,
          mpf \in MpfInputs, active \in BOOLEAN :
         add_quota(loc, crop, total, mpf, active)
    \/ \E l \in LandIds, crop \in Crops, area \in AreaInputs :
         StartCheck(l, crop, area)
    \/ \E r \in ReqIds : StartCommit(r)
    \/ \E r \in ReqIds : StartCommitFail(r)
    \/ \E c \in CultIds : cancel_cultivation(c)
    \/ \E c \in CultIds, st \in StatusInputs : update_status(c, st, None)

Spec == Init /\ [][Next]_vars

(* ------------- concurrent start requests on fixed tables -------------- *)
\* The admin tables as some earlier admin requests left them: one quota
\* (and no region limit), one region limit (and no quota), or neither.
StartInit ==
    /\ \/ /\ \E total \in TotalInputs, mpf \in MpfInputs, active \in BOOLEAN :
               quotas = [i \in QuotaIds |->
                           IF i = 1
                           THEN NewQuota(DistrictLoc, "Rice", total, mpf, active)
                           ELSE NoQuota]
          /\ limits = [i \in LimitIds |-> NoLimit]
       \/ /\ quotas = [i \in QuotaIds |-> NoQuota]
          /\ \E total \in TotalInputs, n \in 0..1, active \in BOOLEAN :
               limits = [i \in LimitIds |->
                           IF i = 1
                           THEN NewLimit("D1", "Rice", total, n, active)
                           ELSE NoLimit]
       \/ /\ quotas = [i \in QuotaIds |-> NoQuota]
          /\ limits = [i \in LimitIds |-> NoLimit]
    /\ cults = <<>>
    /\ reqs = [r \in ReqIds |-> IdleReq]
    /\ last = NoCall
    /\ EmptyMarket

StartNext ==
    \/ \E l \in LandIds, crop \in Crops, area \in AreaInputs :
         StartCheck(l, crop, area)
    \/ \E r \in ReqIds : StartCommit(r)
    \/ \E r \in ReqIds : StartCommitFail(r)

SpecStart == StartInit /\ [][StartNext]_vars


(* ------------------- claims on the quota system ----------------------- *)
\* The cultivations that count against quota i: they reference it and are
\* not cancelled.
QuotaCults(i) ==
    {c \in CultIds : cults[c].quota_id = i /\ cults[c].status # "cancelled"}

RECURSIVE SumAreas(_)
SumAreas(S) ==
    IF S = {} THEN 0
    ELSE LET c == CHOOSE x \in S : TRUE
         IN cults[c].area_used + SumAreas(S \ {c})

\* C1: in every reachable state every AdminQuota satisfies
\* 0 <= allocated_area <= total_allowed_area and
\* allocated_farmer_count >= 0.
C1_QuotaInvariant ==
    \A i \in QuotaIds :
        quotas[i].present =>
            /\ 0 <= quotas[i].allocated_area
            /\ quotas[i].allocated_area <= quotas[i].total_allowed_area
            /\ quotas[i].allocated_farmer_count >= 0

\* C2: whatever the interleaving of the check and commit steps of the
\* concurrent start-cultivation requests against a quota of total T, no
\* state has allocated_area > T.
C2_NoOverAllocation ==
    \A i \in QuotaIds :
        quotas[i].present =>
            quotas[i].allocated_area <= quotas[i].total_allowed_area

\* Two requests for positive areas both committed against quota 1 although
\* together they ask for more than its total: both passed the check on the
\* same counters.
C2_Witness ==
    /\ Len(cults) = 2
    /\ \A c \in CultIds : cults[c].quota_id = 1 /\ cults[c].area_used > 0
    /\ SumAreas(CultIds) > quotas[1].total_allowed_area
    /\ quotas[1].allocated_area <= quotas[1].total_allowed_area

Committing(r) ==
    /\ reqs[r].pc = "checked" /\ reqs'[r].pc = "idle"
    /\ last'.op = "start" /\ last'.ok

Failing(r) ==
    /\ reqs[r].pc = "checked" /\ reqs'[r].pc = "idle"
    /\ last'.op = "start" /\ ~last'.ok

\* C3: the Cultivation row and the write of the matched quota's (or legacy
\* limit's) counters - the counters the request read, plus its area and
\* one farmer - appear in one step, the commit of the request; no step
\* shows one without the other, and a failed commit leaves neither.
C3_AtomicCommit ==
    [][/\ \A r \in ReqIds :
            Committing(r) =>
              LET q == reqs[r].quota_id
                  n == Len(cults')
                  land == Lands[r]
                  lims == ActiveLimits(limits, reqs[r].crop_name, land.district)
              IN /\ n = Len(cults) + 1
                 /\ cults'[n].quota_id = q /\ cults'[n].land_id = r
                 /\ cults'[n].area_used = reqs[r].area
                 /\ q # 0 =>
                      /\ quotas'[q].allocated_area =
                           reqs[r].snap[1] + reqs[r].area
                      /\ quotas'[q].allocated_farmer_count = reqs[r].snap[2] + 1
                 /\ (q = 0 /\ lims # {}) =>
                      \E m \in lims :
                        LET read == IF m = reqs[r].limit_id
                                    THEN reqs[r].snap
                                    ELSE LimitCounters(limits[m])
                        IN /\ limits'[m].current_area_used =
                                read[1] + reqs[r].area
                           /\ limits'[m].current_cultivation_count = read[2] + 1
       /\ (cults' # cults \/ quotas' # quotas \/ limits' # limits)
            => \E r \in ReqIds : Committing(r)
       /\ \A r \in ReqIds :
            Failing(r) => cults' = cults /\ quotas' = quotas /\ limits' = limits
      ]_vars

\* A request has just committed while another is still in flight: its
\* cultivation is there with its area allocated and its farmer counted.
C3_Witness ==
    /\ last = Answer(TRUE, "Cultivation started successfully")
    /\ InFlight # {}
    /\ Len(cults) = 1 /\ cults[1].quota_id = 1 /\ cults[1].area_used > 0
    /\ Counters(quotas[1]) = <<cults[1].area_used, 1>>

\* C4: for every quota q, allocated_area is the sum of area_used over the
\* cultivations that reference q and are not cancelled, and
\* allocated_farmer_count is their number.
C4_CountersMatchCultivations ==
    \A i \in QuotaIds :
        quotas[i].present =>
            /\ quotas[i].allocated_area = SumAreas(QuotaCults(i))
            /\ quotas[i].allocated_farmer_count = Cardinality(QuotaCults(i))

\* C5: for every quota with a per-farmer cap and every farmer, the sum of
\* area_used over the farmer's non-cancelled cultivations on the quota is
\* at most max_per_farmer.  (Stated for caps above zero.)
C5_PerFarmerCap ==
    \A i \in QuotaIds :
        (quotas[i].present /\ TruthyNum(quotas[i].max_per_farmer)) =>
            \A u \in {Lands[l].user_id : l \in LandIds} :
                SumAreas({c \in QuotaCults(i) : cults[c].user_id = u})
                    <= quotas[i].max_per_farmer[1]

\* What the checks of start-cultivation let through, stated on the rows
\* the request read: the area fits the land; a matched quota is active, has
\* the area left and its per-request cap is respected; otherwise a matching
\* region limit has the area left and its farmer count is not used up.
PassesChecks(r) ==
    LET held == reqs'[r]
        land == Lands[r]
        found == find_matching_quota(quotas, land, held.crop_name)
        lims == ActiveLimits(limits, held.crop_name, land.district)
        q == held.quota_id
        m == held.limit_id
    IN /\ held.area <= land.land_size
       /\ IF found # {}
          THEN /\ q \in found /\ m = 0
               /\ quotas[q].is_active
               /\ held.area <=
                    quotas[q].total_allowed_area - quotas[q].allocated_area
               /\ ~(TruthyNum(quotas[q].max_per_farmer)
                      /\ held.area > quotas[q].max_per_farmer[1])
          ELSE IF lims # {}
          THEN /\ m \in lims /\ q = 0
               /\ held.area <= limits[m].max_area - limits[m].current_area_used
               /\ ~(limits[m].max_cultivation_count > 0
                      /\ limits[m].current_cultivation_count
                           >= limits[m].max_cultivation_count)
          ELSE q = 0 /\ m = 0

\* C6: a start-cultivation request that a check rejects creates no
\* Cultivation and changes no counter of any quota or legacy limit: the
\* rejection step writes nothing, only a request that passed every check
\* goes on, and only such a request creates a row.
C6_RejectionWritesNothing ==
    [][/\ (last'.op = "start" /\ ~last'.ok)
            => cults' = cults /\ quotas' = quotas /\ limits' = limits
       /\ \A r \in ReqIds :
            (reqs'[r].pc = "checked" /\ reqs[r].pc # "checked")
              => PassesChecks(r)
       /\ cults' # cults => \E r \in ReqIds : Committing(r)
      ]_vars

\* After one cultivation was committed on quota 1, a request has just been
\* rejected for lack of remaining area: still one cultivation, and the
\* counters it left.
C6_Witness ==
    /\ last = Answer(FALSE, "Only remaining available")
    /\ Len(cults) = 1 /\ cults[1].quota_id = 1 /\ cults[1].area_used > 0
    /\ Counters(quotas[1]) = <<cults[1].area_used, 1>>

(* ------------------------- editing a quota --------------------------- *)
MaxEditTotal == 10

\* A quota some cultivations have been started on: any allocated area up to
\* its total.
EditInit ==
    /\ \E total \in 0..MaxEditTotal :
         \E allocated \in 0..total :
           quotas = [i \in QuotaIds |->
                       IF i = 1
                       THEN [NewQuota(DistrictLoc, "Rice", total, None, TRUE)
                               EXCEPT !.allocated_area = allocated,
                                      !.allocated_farmer_count =
                                          IF allocated > 0 THEN 1 ELSE 0]
                       ELSE NoQuota]
    /\ limits = [i \in LimitIds |-> NoLimit]
    /\ cults = <<>>
    /\ reqs = [r \in ReqIds |-> IdleReq]
    /\ last = NoCall
    /\ EmptyMarket

EditNext ==
    \E i \in QuotaIds, total \in 0..MaxEditTotal, mpf \in MpfInputs,
       active \in BOOLEAN :
      edit_quota(i, QuotaForm(quotas[i], total, mpf, active))

SpecEdit == EditInit /\ [][EditNext]_vars

\* C12: an edit whose new total_allowed_area is below the allocated_area
\* is rejected and total_allowed_area keeps its old value; an edit whose
\* new total is at least the allocated_area (equal included) succeeds and
\* sets it.  With allocated_area 5 and total 10, the edit to 4 is rejected
\* and the edit to 6 succeeds.
C12_EditIntegrity ==
    last.op = "edit_quota" =>
        LET allocated == last.before[1]
            old_total == last.before[2]
            q == quotas[last.who]
        IN /\ q.allocated_area = allocated
           /\ IF last.area < allocated
              THEN ~last.ok /\ q.total_allowed_area = old_total
              ELSE last.ok /\ q.total_allowed_area = last.area
           /\ (allocated = 5 /\ old_total = 10 /\ last.area = 4)
                => (~last.ok /\ q.total_allowed_area = 10)
           /\ (allocated = 5 /\ old_total = 10 /\ last.area = 6)
                => (last.ok /\ q.total_allowed_area = 6)

\* With 5 allocated of 10, the total has just been edited down to 6.
C12_Witness ==
    /\ last.op = "edit_quota" /\ last.ok
    /\ last.before = <<5, 10>> /\ last.area = 6
    /\ quotas[1].total_allowed_area = 6 /\ quotas[1].allocated_area = 5

\* With 5 allocated of 10, the edit of the total to 4 has just been refused.
C12_WitnessRejected ==
    /\ last.op = "edit_quota" /\ ~last.ok
    /\ last.before = <<5, 10>> /\ last.area = 4
    /\ quotas[1].total_allowed_area = 10 /\ quotas[1].allocated_area = 5

(* ------------------- edits of every field of a quota ------------------ *)
\* A second location, in another district.
OtherLoc ==
    [country |-> "IN", state |-> "TN", district |-> "D2",
     taluk |-> NULL, village |-> NULL]

\* The forms an admin can post: the season dates blank, a date, or a text
\* that is no date; either location; either crop; any total, cap and
\* active box.
QuotaForms ==
    {[harvest_season_start |-> hs, harvest_season_end |-> he,
      country |-> loc.country, state |-> loc.state, district |-> loc.district,
      taluk |-> loc.taluk, village |-> loc.village, crop_name |-> crop,
      total_allowed_area |-> total, max_per_farmer |-> mpf,
      is_active |-> active] :
        hs \in {"", "0001-01-02", "soon"}, he \in {"", "0001-01-03", "soon"},
        loc \in {DistrictLoc, OtherLoc}, crop \in {"Rice", "Wheat"},
        total \in TotalInputs, mpf \in {None, Some(1)}, active \in BOOLEAN}

\* A quota without a season, some of its area allocated.
EditFormInit ==
    /\ \E total \in TotalInputs :
         \E allocated \in 0..total :
           quotas = [i \in QuotaIds |->
                       IF i = 1
                       THEN [NewQuota(DistrictLoc, "Rice", total, None, TRUE)
                               EXCEPT !.allocated_area = allocated,
                                      !.allocated_farmer_count =
                                          IF allocated > 0 THEN 1 ELSE 0]
                       ELSE NoQuota]
    /\ limits = [i \in LimitIds |-> NoLimit]
    /\ cults = <<>>
    /\ reqs = [r \in ReqIds |-> IdleReq]
    /\ last = NoCall
    /\ EmptyMarket

EditFormNext == \E i \in QuotaIds, form \in QuotaForms : edit_quota(i, form)

SpecEditForm == EditFormInit /\ [][EditFormNext]_vars

\* C31: when an edit is rejected by the integrity rule (new total below
\* allocated_area), no attribute of the quota - season start and end,
\* scope, crop, total, per-farmer cap, active flag - differs from its value
\* before the request.
C31_RejectedEditWritesNothing ==
    [][\A i \in QuotaIds :
         (/\ last'.op = "edit_quota" /\ last'.who = i /\ ~last'.ok
          /\ last'.area < quotas[i].allocated_area)
            => quotas'[i] = quotas[i]
      ]_vars

\* An edit that had assigned a season, scope or crop to the loaded quota
\* has just been rejected by the integrity rule.
C31_Witness ==
    /\ last.op = "edit_quota" /\ ~last.ok /\ last.flag
    /\ last.reason = "Cannot reduce total allowed area"
    /\ last.area < quotas[last.who].allocated_area

(* ---------------- quotas created, edited and deleted ------------------ *)
\* The admin creates, edits and deletes quotas (without a per-farmer cap)
\* while the farmers start, update and cancel cultivations of well-formed
\* areas.
AdminNext ==
    \/ \E loc \in QuotaLocs, crop \in Crops, total \in TotalInputs :
         add_quota(loc, crop, total, None, TRUE)
    \/ \E i \in QuotaIds, total \in TotalInputs, active \in BOOLEAN :
         edit_quota(i, QuotaForm(quotas[i], total, None, active))
    \/ \E i \in QuotaIds : delete_quota(i)
    \/ \E l \in LandIds, crop \in Crops, area \in PositiveAreas :
         StartCheck(l, crop, area)
    \/ \E r \in ReqIds : StartCommit(r)
    \/ \E r \in ReqIds : StartCommitFail(r)
    \/ \E c \in CultIds : cancel_cultivation(c)
    \/ \E c \in CultIds, st \in StatusInputs : update_status(c, st, None)

SpecAdmin == Init /\ [][AdminNext]_vars

\* C13: delete_quota is refused and the quota stays, with nothing written,
\* whenever a planned or active cultivation references it: a quota row
\* disappears only in a step that found no such cultivation.  After any
\* sequence of start, cancel, status-update and delete operations no
\* planned or active cultivation references a quota that has been deleted.
C13_DeleteBlocked ==
    [][/\ \A i \in QuotaIds :
            (quotas[i].present /\ ~quotas'[i].present) =>
               /\ ~\E c \in CultIds : /\ cults[c].quota_id = i
                                       /\ cults[c].status \in {"planned", "active"}
               /\ last' = AdminAnswer("delete_quota", i, TRUE)
       /\ (last' # last /\ last'.op = "delete_quota") =>
            IF \E c \in CultIds : /\ cults[c].quota_id = last'.who
                                   /\ cults[c].status \in {"planned", "active"}
            THEN ~last'.ok /\ quotas' = quotas /\ cults' = cults
            ELSE last'.ok /\ ~quotas'[last'.who].present
       /\ \A c \in 1..Len(cults') :
            (cults'[c].status \in {"planned", "active"} /\ cults'[c].quota_id # 0)
              => quotas'[cults'[c].quota_id].present
      ]_vars

\* A delete of quota 1 has just been refused: a planned or active
\* cultivation references it and the quota is in place.
C13_Witness ==
    /\ last = AdminAnswer("delete_quota", 1, FALSE)
    /\ quotas[1].present
    /\ \E c \in CultIds : /\ cults[c].quota_id = 1
                           /\ cults[c].status \in {"planned", "active"}

\* Quota 1 has just been deleted while a harvested cultivation referenced
\* it: the cultivation is left without a quota reference.
C13_WitnessDeleted ==
    /\ last = AdminAnswer("delete_quota", 1, TRUE)
    /\ ~quotas[1].present
    /\ \E c \in CultIds : cults[c].quota_id = 0 /\ cults[c].status = "harvested"

(* --------------------- the resolver, called directly ------------------ *)
MaxResolverQuotas == 2

\* Scopes an admin gives a quota: one at each level around village V1 of
\* taluk T1 of district D1, and scopes elsewhere.  A field left out of the
\* scope is NULL.
ResolverLocs ==
    {[country |-> "IN", state |-> "TN", district |-> "D1", taluk |-> "T1",
      village |-> "V1"],
     [country |-> "IN", state |-> "TN", district |-> "D1", taluk |-> "T1",
      village |-> NULL],
     DistrictLoc,
     [country |-> "IN", state |-> "TN", district |-> NULL, taluk |-> NULL,
      village |-> NULL],
     [country |-> "IN", state |-> NULL, district |-> NULL, taluk |-> NULL,
      village |-> NULL],
     [country |-> "IN", state |-> "TN", district |-> "D1", taluk |-> "T1",
      village |-> "V2"],
     [country |-> "IN", state |-> "TN", district |-> "D2", taluk |-> NULL,
      village |-> NULL]}

ResolverCrops == {"Rice", "Wheat"}

\* Lands asked about: in village V1, in village V2 of the same taluk, and
\* one registered with its district only.
ResolverLands ==
    <<Lands[1],
      [Lands[1] EXCEPT !.village = "V2"],
      [Lands[1] EXCEPT !.taluk = NULL, !.village = NULL]>>

\* Any quotas table of up to MaxResolverQuotas rows.
ResolverInit ==
    /\ quotas \in [1..MaxResolverQuotas ->
                     {NoQuota} \cup
                     {NewQuota(loc, crop, MaxTotal, None, active) :
                        loc \in ResolverLocs, crop \in ResolverCrops,
                        active \in BOOLEAN}]
    /\ limits = [i \in LimitIds |-> NoLimit]
    /\ cults = <<>>
    /\ reqs = [r \in ReqIds |-> IdleReq]
    /\ last = NoCall
    /\ EmptyMarket

\* A call of find_matching_quota; found is the id of the row returned, 0
\* for None.
Resolve(l, crop) ==
    /\ LET rows == find_matching_quota(quotas, ResolverLands[l], crop)
       IN \E q \in (IF rows = {} THEN {0} ELSE rows) :
            last' = [op |-> "resolve", who |-> l, crop |-> crop, found |-> q]
    /\ UNCHANGED <<quotas, limits, cults, reqs>>
    /\ UNCHANGED market

ResolverNext ==
    \E l \in 1..Len(ResolverLands), crop \in ResolverCrops : Resolve(l, crop)

SpecResolver == ResolverInit /\ [][ResolverNext]_vars

\* The level of a quota's scope: 5 village, 4 taluk (no village), 3
\* district (no taluk, no village), 2 state, 1 country.
ScopeLevel(q) ==
    IF q.village # NULL THEN 5
    ELSE IF q.taluk # NULL THEN 4
    ELSE IF q.district # NULL THEN 3
    ELSE IF q.state # NULL THEN 2
    ELSE 1

\* The quota's scope, at its level, is the land's.
ScopeMatches(q, land) ==
    LET n == ScopeLevel(q)
    IN IF n = 5 THEN q.village = land.village
       ELSE IF n = 4 THEN q.taluk = land.taluk
       ELSE IF n = 3 THEN q.district = land.district
       ELSE IF n = 2 THEN q.state = land.state
       ELSE q.country = land.country

FarmerCults(i, farmer_id) ==
    {c \in CultIds : /\ cults[c].quota_id = i
                     /\ cults[c].user_id = farmer_id
                     /\ cults[c].status \in {"planned", "active", "harvested"}}

\* AdminQuota.check_per_farmer_limit of quota i.
check_per_farmer_limit(i, farmer_id, requested_area) ==
    LET q == quotas[i]
        existing_area == SumAreas(FarmerCults(i, farmer_id))
        total_requested == existing_area + requested_area
    IN IF ~TruthyNum(q.max_per_farmer)
       THEN [ok |-> TRUE, reason |-> "No per-farmer limit set"]
       ELSE IF total_requested > q.max_per_farmer[1]
       THEN [ok |-> FALSE, reason |-> "Per-farmer limit exceeded"]
       ELSE [ok |-> TRUE, reason |-> "Within per-farmer limit"]

Farmers == {Lands[l].user_id : l \in LandIds}

\* One quota with room for every request, with and without a per-farmer
\* cap.
FarmerInit ==
    /\ \E mpf \in MpfInputs :
         quotas = [i \in QuotaIds |->
                     IF i = 1
                     THEN NewQuota(DistrictLoc, "Rice", MaxTotal, mpf, TRUE)
                     ELSE NoQuota]
    /\ limits = [i \in LimitIds |-> NoLimit]
    /\ cults = <<>>
    /\ reqs = [r \in ReqIds |-> IdleReq]
    /\ last = NoCall
    /\ EmptyMarket

\* A call of check_per_farmer_limit on quota 1; it reads and writes nothing.
PerFarmerCheck(farmer_id, requested_area) ==
    /\ quotas[1].present
    /\ LET r == check_per_farmer_limit(1, farmer_id, requested_area)
       IN last' = [NoCall EXCEPT
                     !.op = "per_farmer", !.who = farmer_id,
                     !.area = requested_area, !.ok = r.ok, !.reason = r.reason]
    /\ UNCHANGED <<quotas, limits, cults, reqs>>
    /\ UNCHANGED market

\* Farmers start, cancel and update cultivations; the per-farmer check is
\* asked in between.
FarmerNext ==
    \/ \E l \in LandIds, crop \in Crops, area \in PositiveAreas :
         StartCheck(l, crop, area)
    \/ \E r \in ReqIds : StartCommit(r)
    \/ \E c \in CultIds : cancel_cultivation(c)
    \/ \E c \in CultIds, st \in StatusInputs : update_status(c, st, None)
    \/ \E u \in Farmers, area \in PositiveAreas : PerFarmerCheck(u, area)

SpecFarmer == FarmerInit /\ [][FarmerNext]_vars

\* C11: check_per_farmer_limit(farmer_id, requested_area) rejects exactly
\* when max_per_farmer is set and the sum of area_used over the farmer's
\* cultivations on the quota in any status but cancelled (planned, active,
\* harvested, failed), plus requested_area, exceeds max_per_farmer; other
\* farmers' cultivations and cancelled ones do not count.  (Stated for
\* caps above zero; the cap of zero is the case of C10.)
C11_PerFarmerLimit ==
    last.op = "per_farmer" =>
        LET q == quotas[1]
            mine == {c \in QuotaCults(1) : cults[c].user_id = last.who}
        IN ~last.ok <=>
             /\ TruthyNum(q.max_per_farmer)
             /\ SumAreas(mine) + last.area > q.max_per_farmer[1]

(* ------------------- the harvest validation, called directly --------- *)
\* Dates are day numbers.  Quantities and yields are counted in hundredths
\* of the yield unit and a tolerance in percent, so that 100, 110 and
\* 110.01 kg are 10000, 11000 and 11001 and the default tolerance 0.10 is
\* 10.
MaxDay == 4

DefaultTolerance == 10

\* The quantity rule: harvest_quantity > estimated_yield * (1 + tolerance).
exceeds_max_allowed(harvest_quantity, estimated_yield, tolerance) ==
    harvest_quantity * 100 > estimated_yield * (100 + tolerance)

\* Cultivation.validate_harvest_submission of cultivation cu.
validate_harvest_submission(cu, harvest_date, harvest_quantity, tolerance) ==
    LET has_quota == cu.quota_id # 0 /\ quotas[cu.quota_id].present
        q == quotas[cu.quota_id]
    IN IF /\ has_quota
          /\ q.harvest_season_start # None /\ q.harvest_season_end # None
          /\ ~(/\ q.harvest_season_start[1] <= harvest_date
               /\ harvest_date <= q.harvest_season_end[1])
       THEN [ok |-> FALSE, reason |-> "Harvest date must be between"]
       ELSE IF cu.status \notin {"planned", "active"}
       THEN [ok |-> FALSE, reason |-> "Only active cultivations can be harvested"]
       ELSE IF /\ TruthyNum(cu.estimated_yield)
               /\ exceeds_max_allowed(harvest_quantity, cu.estimated_yield[1],
                                      tolerance)
       THEN [ok |-> FALSE, reason |-> "Harvest quantity exceeds estimated yield"]
       ELSE [ok |-> TRUE, reason |-> ""]

\* Harvest seasons an admin enters for a quota: none, days 2 to 3, or a
\* start without an end.
SeasonInputs == {<<None, None>>, <<Some(2), Some(3)>>, <<Some(2), None>>}

\* Estimated yields a cultivation can carry: none, 0.00, 100.00.
YieldInputs == {None, Some(0), Some(10000)}

\* Quantities submitted: 0, 0.01, 109.99, 110.00, 110.01.
QuantityInputs == {0, 1, 10999, 11000, 11001}

AllStatuses == StatusInputs \cup {"cancelled"}

\* One cultivation of farmer 1, in any status, with or without a yield
\* estimate, on quota 1 (with or without a harvest season) or on no quota.
HarvestInit ==
    /\ \E season \in SeasonInputs, onQuota \in BOOLEAN, st \in AllStatuses,
          est \in YieldInputs :
         /\ quotas = [i \in QuotaIds |->
                        IF i = 1
                        THEN [NewQuota(DistrictLoc, "Rice", MaxTotal, None, TRUE)
                                EXCEPT !.harvest_season_start = season[1],
                                       !.harvest_season_end = season[2],
                                       !.allocated_area = IF onQuota THEN 1 ELSE 0,
                                       !.allocated_farmer_count =
                                           IF onQuota THEN 1 ELSE 0]
                        ELSE NoQuota]
         /\ cults = <<[NewCultivation(1, 1, IF onQuota THEN 1 ELSE 0, "Rice", 1)
                         EXCEPT !.status = st, !.estimated_yield = est]>>
    /\ limits = [i \in LimitIds |-> NoLimit]
    /\ reqs = [r \in ReqIds |-> IdleReq]
    /\ last = NoCall
    /\ EmptyMarket

\* A call of validate_harvest_submission on cultivation c; it writes
\* nothing.
ValidateHarvest(c, harvest_date, harvest_quantity, tolerance) ==
    /\ LET r == validate_harvest_submission(cults[c], harvest_date,
                                            harvest_quantity, tolerance)
       IN last' = [op |-> "validate_harvest", who |-> c,
                   harvest_date |-> harvest_date,
                   harvest_quantity |-> harvest_quantity,
                   tolerance |-> tolerance, ok |-> r.ok, reason |-> r.reason]
    /\ UNCHANGED <<quotas, limits, cults, reqs>>
    /\ UNCHANGED market

HarvestNext ==
    \E c \in CultIds, d \in 1..MaxDay, qty \in QuantityInputs,
       tol \in {0, DefaultTolerance} :
      ValidateHarvest(c, d, qty, tol)

SpecHarvest == HarvestInit /\ [][HarvestNext]_vars

\* The quota of cultivation cu has a harvest season window and the date is
\* outside it.
OutsideWindow(cu, harvest_date) ==
    /\ cu.quota_id # 0
    /\ quotas[cu.quota_id].harvest_season_start # None
    /\ quotas[cu.quota_id].harvest_season_end # None
    /\ \/ harvest_date < quotas[cu.quota_id].harvest_season_start[1]
       \/ harvest_date > quotas[cu.quota_id].harvest_season_end[1]

\* C19: for a planned or active cultivation and a date in the window,
\* validate_harvest_submission accepts a quantity exactly when
\* harvest_quantity <= estimated_yield * (1 + tolerance), the boundary
\* included: with estimated_yield 100 and tolerance 0.10 it accepts 110 and
\* rejects 110.01.
C19_ToleranceBoundary ==
    last.op = "validate_harvest" =>
        LET cu == cults[last.who]
        IN (/\ cu.status \in {"planned", "active"}
            /\ ~OutsideWindow(cu, last.harvest_date)
            /\ cu.estimated_yield # None) =>
              (last.ok <=>
                 last.harvest_quantity * 100
                   <= cu.estimated_yield[1] * (100 + last.tolerance))

\* C20: validate_harvest_submission rejects whenever the cultivation's
\* quota has a harvest season window and harvest_date is outside
\* [harvest_season_start, harvest_season_end] (both ends in the window),
\* and rejects whenever the status is not planned or active; it accepts
\* only if neither of these rules nor the quantity rule rejects.
C20_DateAndStatusRules ==
    last.op = "validate_harvest" =>
        LET cu == cults[last.who]
            outside == OutsideWindow(cu, last.harvest_date)
            bad_status == cu.status \notin {"planned", "active"}
            too_much == /\ cu.estimated_yield # None
                        /\ last.harvest_quantity * 100
                              > cu.estimated_yield[1] * (100 + last.tolerance)
        IN /\ outside => ~last.ok
           /\ bad_status => ~last.ok
           /\ last.ok => (~outside /\ ~bad_status /\ ~too_much)

(* ------------- the validation next to the status update -------------- *)
\* The farmer asks for the validation of a harvest and updates the status
\* of the cultivation.
HarvestFlowNext ==
    \/ \E c \in CultIds, d \in 1..MaxDay, qty \in QuantityInputs :
         ValidateHarvest(c, d, qty, DefaultTolerance)
    \/ \E c \in CultIds, st \in StatusInputs : update_status(c, st, None)

SpecHarvestFlow == HarvestInit /\ [][HarvestFlowNext]_vars

\* C21: the status of a cultivation becomes harvested only in a step in
\* which validate_harvest_submission accepted the submission of that
\* cultivation (date in the quota's season window, prior status planned or
\* active, quantity within tolerance of the estimated yield); a harvested
\* cultivation is not harvested a second time.
C21_HarvestedOnlyValidated ==
    [][\A c \in CultIds :
         (cults'[c].status = "harvested" /\ cults[c].status # "harvested") =>
            /\ cults[c].status \in {"planned", "active"}
            /\ last'.op = "validate_harvest" /\ last'.who = c /\ last'.ok
            /\ validate_harvest_submission(cults[c], last'.harvest_date,
                   last'.harvest_quantity, last'.tolerance).ok
      ]_vars

(* ====================== harvest sales and listings ==================== *)
\* Quantities are in hundredths of the yield unit; the two tolerances of
\* 0.05 are in percent.
HARVEST_QUANTITY_TOLERANCE == 5

QUANTITY_TOLERANCE == 5

MaxListings == 2

\* The admins who review harvest sales.
Admins == {8, 9}

\* A crop_prices row.  A missing valid_from or valid_to is None.
NewCropPrice(crop, district, valid_from, valid_to, active) ==
    [crop_name |-> crop, district |-> district, valid_from |-> valid_from,
     valid_to |-> valid_to, is_active |-> active, units_sold |-> 0]

\* The harvest_date argument: None, a date object, or a string.
NoDate == [type |-> "none"]

DateObj(day) == [type |-> "date", day |-> day]

DateStr(text) == [type |-> "str", text |-> text]

\* get_crop_price with a string that does not parse raising instead of
\* falling back to the lookup without a date.
get_crop_price_raising(rows, crop_name, district, harvest_date) ==
    LET unparsed == /\ harvest_date.type = "str" /\ harvest_date.text # ""
                    /\ strptime(harvest_date.text) = None
        day == IF harvest_date.type = "date" THEN Some(harvest_date.day)
               ELSE IF harvest_date.type = "str" /\ harvest_date.text # ""
               THEN strptime(harvest_date.text)
               ELSE None
    IN [raised |-> unparsed,
        rows |-> IF unparsed THEN {}
                 ELSE {p \in DOMAIN rows :
                         /\ rows[p].crop_name = crop_name
                         /\ rows[p].district = district
                         /\ rows[p].is_active
                         /\ day # None =>
                              /\ \/ rows[p].valid_from = None
                                 \/ rows[p].valid_from[1] <= day[1]
                              /\ \/ rows[p].valid_to = None
                                 \/ rows[p].valid_to[1] >= day[1]}]

\* get_crop_price without the valid_to filter.
get_crop_price_open_ended(rows, crop_name, district, harvest_date) ==
    LET day == IF harvest_date.type = "date" THEN Some(harvest_date.day)
               ELSE IF harvest_date.type = "str" /\ harvest_date.text # ""
               THEN strptime(harvest_date.text)
               ELSE None
    IN [raised |-> FALSE,
        rows |-> {p \in DOMAIN rows :
                    /\ rows[p].crop_name = crop_name
                    /\ rows[p].district = district
                    /\ rows[p].is_active
                    /\ day # None =>
                         \/ rows[p].valid_from = None
                         \/ rows[p].valid_from[1] <= day[1]}]

\* get_crop_price: the rows of the query, of which .first() returns one
\* (the query has no ORDER BY), or None when there is none.  A None or empty
\* harvest_date is falsy; a string is parsed, and one that does not parse
\* is left a string, so that no date filter is applied; a date filters on
\* the validity window.  Nothing is raised.
get_crop_price(rows, crop_name, district, harvest_date) ==
    LET day == IF harvest_date.type = "date" THEN Some(harvest_date.day)
               ELSE IF harvest_date.type = "str" /\ harvest_date.text # ""
               THEN strptime(harvest_date.text)
               ELSE None
    IN [raised |-> FALSE,
        rows |-> {p \in DOMAIN rows :
                    /\ rows[p].crop_name = crop_name
                    /\ rows[p].district = district
                    /\ rows[p].is_active
                    /\ day # None =>
                         /\ \/ rows[p].valid_from = None
                            \/ rows[p].valid_from[1] <= day[1]
                         /\ \/ rows[p].valid_to = None
                            \/ rows[p].valid_to[1] >= day[1]}]

\* A harvest_sales row as submit_harvest creates it.
NewHarvestSale(cultivation_id, user_id, actual_yield, selling_quantity) ==
    [cultivation_id |-> cultivation_id, user_id |-> user_id,
     actual_yield_quantity |-> actual_yield,
     selling_quantity |-> selling_quantity, approved_quantity |-> None,
     status |-> "pending", reviewed_by |-> None]

\* HarvestSale.get_remaining_quantity
get_remaining_quantity(sale) ==
    IF sale.approved_quantity # None THEN sale.approved_quantity[1]
    ELSE sale.actual_yield_quantity

\* The answer of a request of the selling side about row who.
SaleAnswer(op, who, ok) == [NoCall EXCEPT !.op = op, !.who = who, !.ok = ok]

\* submit_harvest: `if cultivation.max_allowed_sale_quantity:` and the
\* comparison inside it.
over_sale_cap(cu, selling_quantity) ==
    /\ TruthyNum(cu.max_allowed_sale_quantity)
    /\ selling_quantity > cu.max_allowed_sale_quantity[1]

\* submit_harvest: selling_quantity > actual_yield * (1 + tolerance)
over_actual_yield(actual_yield, selling_quantity) ==
    selling_quantity * 100 > actual_yield * (100 + HARVEST_QUANTITY_TOLERANCE)

\* submit_harvest up to its last validation: the cultivation must be
\* harvested and have no HarvestSale yet, both form fields must be filled,
\* and the selling quantity must pass the two ceilings.  A refused request
\* writes nothing.
SubmitCheck(s, c, actual_yield, selling_quantity) ==
    /\ submitting[s].pc = "idle"
    /\ LET cu == cults[c]
           existing_sale == \E h \in DOMAIN harvest_sales :
                               harvest_sales[h].cultivation_id = c
           refused ==
              \/ cu.status # "harvested"
              \/ existing_sale
              \/ actual_yield = None \/ selling_quantity = None
              \/ over_sale_cap(cu, selling_quantity[1])
              \/ over_actual_yield(actual_yield[1], selling_quantity[1])
       IN IF refused
          THEN /\ last' = SaleAnswer("submit_harvest", c, FALSE)
               /\ UNCHANGED submitting
          ELSE /\ submitting' =
                    [submitting EXCEPT ![s] =
                       [pc |-> "validated", cultivation_id |-> c,
                        actual_yield |-> actual_yield[1],
                        selling_quantity |-> selling_quantity[1]]]
               /\ UNCHANGED last
    /\ UNCHANGED <<quotas, limits, cults, reqs, harvest_sales, crop_listings,
                   crop_prices>>

\* submit_harvest from the insert to the commit.
SubmitCommit(s) ==
    /\ submitting[s].pc = "validated"
    /\ LET rq == submitting[s]
           c == rq.cultivation_id
       IN /\ harvest_sales' =
               Append(harvest_sales,
                      NewHarvestSale(c, cults[c].user_id, rq.actual_yield,
                                     rq.selling_quantity))
          /\ cults' = [cults EXCEPT ![c].actual_yield = Some(rq.actual_yield)]
          /\ last' = SaleAnswer("submit_harvest", c, TRUE)
    /\ submitting' = [submitting EXCEPT ![s] = IdleSubmit]
    /\ UNCHANGED <<quotas, limits, reqs, crop_listings, crop_prices>>

\* approve_harvest_sale by an admin; a blank approved_quantity field means
\* the selling quantity.
approve_harvest_sale(h, approved_qty, admin) ==
    /\ harvest_sales' =
         [harvest_sales EXCEPT
            ![h].approved_quantity =
                IF approved_qty # None THEN approved_qty
                ELSE Some(harvest_sales[h].selling_quantity),
            ![h].status = "approved",
            ![h].reviewed_by = Some(admin)]
    /\ last' = SaleAnswer("approve_harvest_sale", h, TRUE)
    /\ UNCHANGED <<quotas, limits, cults, reqs, crop_listings, crop_prices,
                   submitting>>

\* reject_harvest_sale by an admin
reject_harvest_sale(h, admin) ==
    /\ harvest_sales' =
         [harvest_sales EXCEPT ![h].status = "rejected",
                               ![h].reviewed_by = Some(admin)]
    /\ last' = SaleAnswer("reject_harvest_sale", h, TRUE)
    /\ UNCHANGED <<quotas, limits, cults, reqs, crop_listings, crop_prices,
                   submitting>>

\* round() of a quantity in hundredths to whole units, halves to even.
round(quantity) ==
    LET whole == quantity \div 100
        frac == quantity % 100
    IN IF frac > 50 \/ (frac = 50 /\ whole % 2 = 1) THEN whole + 1 ELSE whole

\* The listing routes' ceiling, on the cultivation's actual yield.
over_listing_ceiling(cu, quantity) ==
    /\ TruthyNum(cu.actual_yield)
    /\ quantity * 100 > cu.actual_yield[1] * (100 + QUANTITY_TOLERANCE)

\* add_listing: the cultivation must be harvested, a price must be set for
\* its crop and district, the quantity field must be filled and the
\* quantity must pass the ceiling on the cultivation's actual yield.
add_listing(c, quantity) ==
    /\ Len(crop_listings) < MaxListings
    /\ LET cu == cults[c]
           district == Lands[cu.land_id].district
           price_info == get_crop_price(crop_prices, cu.crop_name, district,
                                        NoDate).rows
           refused ==
              \/ cu.status # "harvested"
              \/ price_info = {}
              \/ quantity = None
              \/ over_listing_ceiling(cu, quantity[1])
       IN IF refused
          THEN /\ last' = SaleAnswer("add_listing", c, FALSE)
               /\ UNCHANGED <<crop_listings, crop_prices>>
          ELSE /\ crop_listings' =
                    Append(crop_listings,
                           [user_id |-> cu.user_id, cultivation_id |-> c,
                            quantity |-> quantity[1], status |-> "available"])
               /\ \E p \in price_info :
                    crop_prices' =
                       [crop_prices EXCEPT
                          ![p].units_sold = @ + round(quantity[1])]
               /\ last' = SaleAnswer("add_listing", c, TRUE)
    /\ UNCHANGED <<quotas, limits, cults, reqs, harvest_sales, submitting>>

\* edit_listing: only the quantity changes, under the same ceiling.
edit_listing(l, new_quantity) ==
    /\ LET listing == crop_listings[l]
           cu == cults[listing.cultivation_id]
           refused == /\ listing.cultivation_id # 0
                      /\ over_listing_ceiling(cu, new_quantity)
       IN IF refused
          THEN /\ last' = SaleAnswer("edit_listing", l, FALSE)
               /\ UNCHANGED crop_listings
          ELSE /\ crop_listings' =
                    [crop_listings EXCEPT ![l].quantity = new_quantity]
               /\ last' = SaleAnswer("edit_listing", l, TRUE)
    /\ UNCHANGED <<quotas, limits, cults, reqs, harvest_sales, crop_prices,
                   submitting>>

\* Form values of submit_harvest: blank, 0.00 and 100.00 for the actual
\* yield; blank, 0.01, 105.00 and 105.01 for the selling quantity.
ActualYieldInputs == {None, Some(0), Some(10000)}

SellingInputs == {None, Some(1), Some(10500), Some(10501)}

\* Quantities an admin approves: the blank field, or 50.00.
ApprovedInputs == {None, Some(5000)}

\* Quantities of a listing: blank, 50.00, 100.00, 105.00, 105.01.
ListingInputs == {None, Some(5000), Some(10000), Some(10500), Some(10501)}

\* The sale cap stored as the estimated yield itself, without tolerance.
max_sale_qty_no_tolerance(estimated_yield) == estimated_yield

\* The max_allowed_sale_quantity start_cultivation stores with an
\* estimated yield.
max_sale_qty(estimated_yield) ==
    IF estimated_yield = None THEN None
    ELSE Some((estimated_yield[1] * (100 + HARVEST_QUANTITY_TOLERANCE))
                 \div 100)

\* One cultivation of farmer 1, harvested or still active, with or without
\* a yield estimate, and the price of its crop in its district.
SalesInit ==
    /\ \E st \in {"active", "harvested"}, est \in YieldInputs :
         cults = <<[NewCultivation(1, 1, 0, "Rice", 1)
                      EXCEPT !.status = st, !.estimated_yield = est,
                             !.max_allowed_sale_quantity = max_sale_qty(est)]>>
    /\ quotas = [i \in QuotaIds |-> NoQuota]
    /\ limits = [i \in LimitIds |-> NoLimit]
    /\ reqs = [r \in ReqIds |-> IdleReq]
    /\ last = NoCall
    /\ harvest_sales = <<>>
    /\ crop_listings = <<>>
    /\ crop_prices = <<NewCropPrice("Rice", "D1", None, None, TRUE)>>
    /\ submitting = [s \in SubmitIds |-> IdleSubmit]

\* Farmers submit harvests concurrently and admins review the sales.
SalesNext ==
    \/ \E s \in SubmitIds, c \in CultIds, actual_yield \in ActualYieldInputs,
          selling_quantity \in SellingInputs :
         SubmitCheck(s, c, actual_yield, selling_quantity)
    \/ \E s \in SubmitIds : SubmitCommit(s)
    \/ \E h \in DOMAIN harvest_sales, approved_qty \in ApprovedInputs,
          admin \in Admins :
         approve_harvest_sale(h, approved_qty, admin)
    \/ \E h \in DOMAIN harvest_sales, admin \in Admins :
         reject_harvest_sale(h, admin)

SpecSales == SalesInit /\ [][SalesNext]_vars

\* One farmer submits a harvest, an admin approves it, and the farmer
\* lists the crop.
ListingNext ==
    \/ \E c \in CultIds, actual_yield \in ActualYieldInputs,
          selling_quantity \in SellingInputs :
         SubmitCheck(1, c, actual_yield, selling_quantity)
    \/ SubmitCommit(1)
    \/ \E h \in DOMAIN harvest_sales, approved_qty \in ApprovedInputs :
         approve_harvest_sale(h, approved_qty, 8)
    \/ \E c \in CultIds, quantity \in ListingInputs : add_listing(c, quantity)
    \/ \E l \in DOMAIN crop_listings, quantity \in ListingInputs \ {None} :
         edit_listing(l, quantity[1])

SpecListing == SalesInit /\ [][ListingNext]_vars

(* -------------------- claims on the harvest sales --------------------- *)
\* C22: every HarvestSale created by submit_harvest has a selling quantity
\* of at most actual_yield_quantity * (1 + HARVEST_QUANTITY_TOLERANCE) and
\* of at most the max_allowed_sale_quantity of its cultivation (where the
\* cultivation has one): a submission over either ceiling is rejected.
C22_BothCeilings ==
    \A h \in DOMAIN harvest_sales :
       LET sale == harvest_sales[h]
           cu == cults[sale.cultivation_id]
       IN /\ sale.selling_quantity * 100 <=
                sale.actual_yield_quantity * (100 + HARVEST_QUANTITY_TOLERANCE)
          /\ cu.max_allowed_sale_quantity # None =>
                sale.selling_quantity <= cu.max_allowed_sale_quantity[1]

\* C23: after any sequence of submit_harvest requests, concurrent ones
\* included, a cultivation has at most one HarvestSale.
C23_OneSalePerCultivation ==
    \A c \in CultIds :
       Cardinality({h \in DOMAIN harvest_sales :
                      harvest_sales[h].cultivation_id = c}) <= 1

\* C24: get_remaining_quantity is approved_quantity when it is set and
\* actual_yield_quantity otherwise, and a listing created or edited for a
\* cultivation that has a HarvestSale gets a quantity of at most that
\* sale's get_remaining_quantity().
C24_ListingWithinRemaining ==
    [][/\ \A h \in DOMAIN harvest_sales :
            get_remaining_quantity(harvest_sales[h]) =
               IF harvest_sales[h].approved_quantity = None
               THEN harvest_sales[h].actual_yield_quantity
               ELSE harvest_sales[h].approved_quantity[1]
       /\ \A l \in DOMAIN crop_listings' :
            (l \notin DOMAIN crop_listings \/ crop_listings'[l] # crop_listings[l])
               => \A h \in DOMAIN harvest_sales :
                     harvest_sales[h].cultivation_id =
                           crop_listings'[l].cultivation_id
                        => crop_listings'[l].quantity <=
                              get_remaining_quantity(harvest_sales[h])
      ]_vars

\* C25: a HarvestSale is reviewed at most once: an approve or reject
\* request on a sale that is approved or rejected is refused and leaves the
\* row (status, approved_quantity, reviewer) as it was.
C25_ReviewedOnce ==
    [][\A h \in DOMAIN harvest_sales :
         harvest_sales[h].status \in {"approved", "rejected"} =>
            /\ harvest_sales'[h] = harvest_sales[h]
            /\ (/\ last'.op \in {"approve_harvest_sale", "reject_harvest_sale"}
                /\ last'.who = h
                /\ last' # last) => ~last'.ok
      ]_vars

(* ------------------- claims on the inactive quota --------------------- *)
\* The quotas find_matching_quota would return for the land and crop if it
\* did not ask for is_active.
MatchingQuotaAnyStatus(land, crop) ==
    find_matching_quota(
        [i \in DOMAIN quotas |->
           [quotas[i] EXCEPT !.is_active = quotas[i].present]],
        land, crop)

\* C26: a start-cultivation request whose matching quota for the land and
\* crop is inactive is rejected at its checks: it never goes on to commit
\* a cultivation, restricted or unrestricted.
C26_InactiveQuotaRejects ==
    [][\A l \in LandIds :
         (reqs[l].pc = "idle" /\ reqs'[l].pc = "checked") =>
            ~\E q \in MatchingQuotaAnyStatus(Lands[l], reqs'[l].crop_name) :
                ~quotas[q].is_active
      ]_vars

(* ----------------------- legacy region limits ------------------------- *)
\* admin.edit_limit: every field of the row is taken from the form, the
\* two counters stay.
edit_limit(i, district, crop, max_area, max_count, active) ==
    /\ limits[i].present
    /\ limits' = [limits EXCEPT
                    ![i].district = district, ![i].crop_name = crop,
                    ![i].max_area = max_area,
                    ![i].max_cultivation_count = max_count,
                    ![i].is_active = active]
    /\ UNCHANGED <<quotas, cults, reqs, last>>
    /\ UNCHANGED market

\* The admin creates and edits region limits while the farmers start and
\* cancel cultivations of well-formed areas; the admin_quotas table stays
\* empty.
LegacyNext ==
    \/ \E total \in TotalInputs, n \in 0..1, active \in BOOLEAN :
         add_limit("D1", "Rice", total, n, active)
    \/ \E i \in LimitIds, total \in TotalInputs, n \in 0..1, active \in BOOLEAN :
         edit_limit(i, "D1", "Rice", total, n, active)
    \/ \E l \in LandIds, crop \in Crops, area \in PositiveAreas :
         StartCheck(l, crop, area)
    \/ \E r \in ReqIds : StartCommit(r)
    \/ \E r \in ReqIds : StartCommitFail(r)
    \/ \E c \in CultIds : cancel_cultivation(c)

SpecLegacy == Init /\ [][LegacyNext]_vars

\* C27: in every reachable state every region limit has
\* 0 <= current_area_used <= max_area.
C27_LimitInvariant ==
    \A i \in LimitIds :
       limits[i].present =>
          /\ 0 <= limits[i].current_area_used
          /\ limits[i].current_area_used <= limits[i].max_area

(* ------------- a cultivation from its creation to its sale ------------ *)
\* One cultivation of area 1 as start_cultivation created it against quota
\* 1: planned, with or without a yield estimate and the sale cap derived
\* from it.
SaleFlowInit ==
    /\ \E est \in YieldInputs :
         cults = <<[NewCultivation(1, 1, 1, "Rice", 1)
                      EXCEPT !.estimated_yield = est,
                             !.max_allowed_sale_quantity = max_sale_qty(est)]>>
    /\ quotas = [i \in QuotaIds |->
                   IF i = 1
                   THEN [NewQuota(DistrictLoc, "Rice", MaxTotal, None, TRUE)
                           EXCEPT !.allocated_area = 1,
                                  !.allocated_farmer_count = 1]
                   ELSE NoQuota]
    /\ limits = [i \in LimitIds |-> NoLimit]
    /\ reqs = [r \in ReqIds |-> IdleReq]
    /\ last = NoCall
    /\ harvest_sales = <<>>
    /\ crop_listings = <<>>
    /\ crop_prices = <<NewCropPrice("Rice", "D1", None, None, TRUE)>>
    /\ submitting = [s \in SubmitIds |-> IdleSubmit]

\* The farmer updates the status, submits the harvest or cancels; an admin
\* reviews the sale.
SaleFlowNext ==
    \/ \E c \in CultIds, st \in StatusInputs, actual_yield \in {None, Some(10000)} :
         update_status(c, st, actual_yield)
    \/ \E c \in CultIds, actual_yield \in ActualYieldInputs,
          selling_quantity \in SellingInputs :
         SubmitCheck(1, c, actual_yield, selling_quantity)
    \/ SubmitCommit(1)
    \/ \E h \in DOMAIN harvest_sales, approved_qty \in ApprovedInputs :
         approve_harvest_sale(h, approved_qty, 8)
    \/ \E h \in DOMAIN harvest_sales : reject_harvest_sale(h, 8)
    \/ \E c \in CultIds : cancel_cultivation(c)

SpecSaleFlow == SaleFlowInit /\ [][SaleFlowNext]_vars

\* C33: the max_allowed_sale_quantity of a cultivation is its estimated
\* yield times (1 + HARVEST_QUANTITY_TOLERANCE), or unset without an
\* estimate; and no step - status update, harvest submission, cancellation,
\* sale review - changes area_used or max_allowed_sale_quantity.
C33_FixedAtCreation ==
    /\ [](\A c \in CultIds :
            cults[c].max_allowed_sale_quantity =
               IF cults[c].estimated_yield = None THEN None
               ELSE Some((cults[c].estimated_yield[1] * 105) \div 100))
    /\ [][\A c \in CultIds :
            /\ cults'[c].area_used = cults[c].area_used
            /\ cults'[c].max_allowed_sale_quantity =
                  cults[c].max_allowed_sale_quantity
         ]_vars

\* A cultivation with an estimate of 100.00 has been harvested, submitted
\* and approved, and its cap is 105.00 and its area 1.
C33_Witness ==
    /\ \E h \in DOMAIN harvest_sales : harvest_sales[h].status = "approved"
    /\ cults[1].status = "harvested" /\ cults[1].actual_yield # None
    /\ cults[1].estimated_yield = Some(10000)
    /\ cults[1].max_allowed_sale_quantity = Some(10500)
    /\ cults[1].area_used = 1

\* A cancelled cultivation keeps its area and its cap.
C33_WitnessCancelled ==
    /\ cults[1].status = "cancelled" /\ cults[1].area_used = 1
    /\ cults[1].max_allowed_sale_quantity = Some(10500)

(* ----------------------- claims on the areas -------------------------- *)
\* C38: every cultivation created by start-cultivation has area_used > 0:
\* a request with a zero or negative area is rejected.
C38_PositiveArea == \A c \in CultIds : cults[c].area_used > 0

\* C39: the sum of area_used over the planned and active cultivations of a
\* land never exceeds the land's land_size.
C39_LandNotOverbooked ==
    \A l \in AllLandIds :
       SumAreas({c \in CultIds : /\ cults[c].land_id = l
                                 /\ cults[c].status \in {"planned", "active"}})
          <= Lands[l].land_size

(* ------------------ the resolver on homonymous places ----------------- *)
\* Scopes of places the lands are not in that share a name with the lands'
\* places: village V1 of district D2, taluk T1 of district D2, state TN of
\* another country.
ElsewhereLocs ==
    {[country |-> "IN", state |-> "TN", district |-> "D2", taluk |-> "T2",
      village |-> "V1"],
     [country |-> "IN", state |-> "TN", district |-> "D2", taluk |-> "T1",
      village |-> NULL],
     [country |-> "LK", state |-> "TN", district |-> NULL, taluk |-> NULL,
      village |-> NULL]}

\* Any quotas table of up to MaxResolverQuotas rows with those scopes too.
ScopeInit ==
    /\ quotas \in [1..MaxResolverQuotas ->
                     {NoQuota} \cup
                     {NewQuota(loc, crop, MaxTotal, None, active) :
                        loc \in ResolverLocs \cup ElsewhereLocs,
                        crop \in ResolverCrops, active \in BOOLEAN}]
    /\ limits = [i \in LimitIds |-> NoLimit]
    /\ cults = <<>>
    /\ reqs = [r \in ReqIds |-> IdleReq]
    /\ last = NoCall
    /\ EmptyMarket

SpecScope == ScopeInit /\ [][ResolverNext]_vars

\* C40: a quota returned by find_matching_quota(land, crop) is active, is
\* for the crop, and each of its scope fields that is not null equals the
\* land's field: a quota scoped to a place the land is not in is never
\* returned.
C40_ReturnedQuotaCoversLand ==
    (last.op = "resolve" /\ last.found # 0) =>
       LET q == quotas[last.found]
           land == ResolverLands[last.who]
       IN /\ q.is_active
          /\ q.crop_name = last.crop
          /\ q.country # NULL => q.country = land.country
          /\ q.state # NULL => q.state = land.state
          /\ q.district # NULL => q.district = land.district
          /\ q.taluk # NULL => q.taluk = land.taluk
          /\ q.village # NULL => q.village = land.village

(* ------------------- claims on concurrent starts ---------------------- *)
\* C37: under any interleaving of two start requests on the same quota
\* that both commit, no increment is lost: the commit of a request raises
\* the quota's allocated_area, as it is at that moment, by the requested
\* area and its allocated_farmer_count by 1, so that the two commits add
\* the sum of the areas and 2.
C37_NoLostIncrement ==
    [][\A r \in ReqIds :
         (Committing(r) /\ reqs[r].quota_id # 0) =>
            LET q == reqs[r].quota_id
            IN /\ quotas'[q].allocated_area =
                     quotas[q].allocated_area + reqs[r].area
               /\ quotas'[q].allocated_farmer_count =
                     quotas[q].allocated_farmer_count + 1
      ]_vars

(* --------------------- a land without a district ---------------------- *)
\* One active region limit for Rice, of district D1 or of district 'Other',
\* and no quota.
OtherInit ==
    /\ \E district \in {"D1", "Other"}, n \in 0..1 :
         limits = [i \in LimitIds |->
                     IF i = 1 THEN NewLimit(district, "Rice", MaxTotal, n, TRUE)
                     ELSE NoLimit]
    /\ quotas = [i \in QuotaIds |-> NoQuota]
    /\ cults = <<>>
    /\ reqs = [r \in ReqIds |-> IdleReq]
    /\ last = NoCall
    /\ EmptyMarket

\* Start requests on every land, the land without a district included.
OtherNext ==
    \/ \E l \in AllLandIds, crop \in Crops, area \in PositiveAreas :
         StartCheck(l, crop, area)
    \/ \E r \in ReqIds : StartCommit(r)
    \/ \E r \in ReqIds : StartCommitFail(r)

SpecOther == OtherInit /\ [][OtherNext]_vars

\* C36: on the legacy path the region limit whose remaining area gated a
\* start request is the record the commit of the request writes: its
\* counters become the ones the request read plus the area and one
\* farmer - for a land with no district too, which is checked against the
\* limit of district 'Other'.
C36_GatingLimitIsCounted ==
    [][\A r \in ReqIds :
         (Committing(r) /\ reqs[r].limit_id # 0) =>
            LET m == reqs[r].limit_id
            IN LimitCounters(limits'[m]) =
                  <<reqs[r].snap[1] + reqs[r].area, reqs[r].snap[2] + 1>>
      ]_vars

(* ------------- a quota created beside a region limit ------------------ *)
\* An active region limit for Rice in D1 and no quota yet.
LifecycleInit ==
    /\ limits = [i \in LimitIds |->
                   IF i = 1 THEN NewLimit("D1", "Rice", MaxTotal, 0, TRUE)
                   ELSE NoLimit]
    /\ quotas = [i \in QuotaIds |-> NoQuota]
    /\ cults = <<>>
    /\ reqs = [r \in ReqIds |-> IdleReq]
    /\ last = NoCall
    /\ EmptyMarket

\* Forms of update_status: the four statuses of the list and one that is
\* not of the list; the actual_yield field blank or 100.00.
StatusForms == StatusInputs \cup {"cancelled"}

\* Farmers start cultivations against the limit, the admin creates a quota
\* for the same district and crop, farmers start against the quota, update
\* statuses and cancel.
LifecycleNext ==
    \/ add_quota(DistrictLoc, "Rice", MaxTotal, None, TRUE)
    \/ \E l \in LandIds, crop \in Crops, area \in PositiveAreas :
         StartCheck(l, crop, area)
    \/ \E r \in ReqIds : StartCommit(r)
    \/ \E c \in CultIds : cancel_cultivation(c)
    \/ \E c \in CultIds, st \in StatusForms, actual_yield \in {None, Some(10000)} :
         update_status(c, st, actual_yield)

SpecLifecycle == LifecycleInit /\ [][LifecycleNext]_vars

\* C32: a step that moves a cultivation to harvested or failed leaves the
\* counters of every quota and of every region limit as they were.
C32_HarvestKeepsCounters ==
    [][\A c \in CultIds :
         (/\ cults'[c].status \in {"harvested", "failed"}
          /\ cults'[c].status # cults[c].status)
            => /\ \A i \in QuotaIds : Counters(quotas'[i]) = Counters(quotas[i])
               /\ \A m \in LimitIds :
                    LimitCounters(limits'[m]) = LimitCounters(limits[m])
      ]_vars

\* A cultivation allocated against quota 1 is harvested and the quota still
\* counts its area and its farmer.
C32_Witness ==
    \E c \in CultIds :
       /\ cults[c].status = "harvested" /\ cults[c].quota_id = 1
       /\ cults[c].actual_yield # None
       /\ quotas[1].allocated_area >= cults[c].area_used
       /\ quotas[1].allocated_farmer_count >= 1

\* C34: the reserved area of a cultivation is released at most once:
\* cancel_cultivation on a cultivation whose status is already cancelled
\* changes no counter of a quota and no counter of a region limit.
C34_ReleasedOnce ==
    [][(/\ last'.op = "cancel"
        /\ cults[last'.who].status = "cancelled")
          => /\ \A i \in QuotaIds : Counters(quotas'[i]) = Counters(quotas[i])
             /\ \A m \in LimitIds :
                  LimitCounters(limits'[m]) = LimitCounters(limits[m])
      ]_vars

\* C35: cancel_cultivation on a cultivation allocated against a quota
\* leaves the counters of every region limit as they were, even when an
\* active limit exists for the district and crop.
C35_QuotaCancelKeepsLimits ==
    [][(/\ last'.op = "cancel"
        /\ cults[last'.who].quota_id # 0)
          => \A m \in LimitIds :
               LimitCounters(limits'[m]) = LimitCounters(limits[m])
      ]_vars

(* --------------------------- crop prices ------------------------------ *)
MaxPrices == 2

PriceCrops == {"Rice", "Wheat"}

PriceDistricts == {"D1", "D2"}

\* The rows an admin can have entered: any crop and district, with or
\* without a start (day 2) and an end (day 3) of validity, active or not.
PriceRows ==
    {NewCropPrice(crop, district, valid_from, valid_to, active) :
       crop \in PriceCrops, district \in PriceDistricts,
       valid_from \in {None, Some(2)}, valid_to \in {None, Some(3)},
       active \in BOOLEAN}

\* The harvest_date arguments: none, a date, a string that parses, strings
\* that do not, the empty string.
DateInputs ==
    {NoDate} \cup {DateObj(d) : d \in 1..MaxDay}
       \cup {DateStr(t) : t \in {"0001-01-04", "04/01/0001", "soon", ""}}

\* Any crop_prices table of up to MaxPrices rows.
PriceInit ==
    /\ \E n \in 0..MaxPrices : crop_prices \in [1..n -> PriceRows]
    /\ quotas = [i \in QuotaIds |-> NoQuota]
    /\ limits = [i \in LimitIds |-> NoLimit]
    /\ cults = <<>>
    /\ reqs = [r \in ReqIds |-> IdleReq]
    /\ last = NoCall
    /\ harvest_sales = <<>>
    /\ crop_listings = <<>>
    /\ submitting = [s \in SubmitIds |-> IdleSubmit]

\* A call of get_crop_price; price is the id of the row returned, 0 for
\* None.
PriceLookup(crop, district, harvest_date) ==
    /\ LET r == get_crop_price(crop_prices, crop, district, harvest_date)
       IN \E price \in (IF r.rows = {} THEN {0} ELSE r.rows) :
            last' = [op |-> "get_crop_price", crop_name |-> crop,
                     district |-> district, harvest_date |-> harvest_date,
                     raised |-> r.raised, price |-> price]
    /\ UNCHANGED <<quotas, limits, cults, reqs>>
    /\ UNCHANGED market

PriceNext ==
    \E crop \in PriceCrops, district \in PriceDistricts,
       harvest_date \in DateInputs :
      PriceLookup(crop, district, harvest_date)

SpecPrices == PriceInit /\ [][PriceNext]_vars

\* Row p is an active price of the crop and district of the last call.
ActivePriceFor(p) ==
    /\ crop_prices[p].is_active
    /\ crop_prices[p].crop_name = last.crop_name
    /\ crop_prices[p].district = last.district

\* The validity window of row p, open on a side that is null, contains the
\* day.
WindowContains(p, day) ==
    /\ crop_prices[p].valid_from = None \/ crop_prices[p].valid_from[1] <= day
    /\ crop_prices[p].valid_to = None \/ crop_prices[p].valid_to[1] >= day

\* The day a harvest_date argument denotes when it is a valid date: a date
\* object, or a string in the format %Y-%m-%d.
ValidDay(harvest_date) ==
    IF harvest_date.type = "date" THEN Some(harvest_date.day)
    ELSE IF harvest_date.type = "str" THEN strptime(harvest_date.text)
    ELSE None

\* C28: with a valid date get_crop_price returns only an active row of the
\* crop and district whose window contains the date, and None exactly when
\* there is no such row, whatever other active rows there are; without a
\* date it returns an active row of the crop and district whatever its
\* window, and None exactly when there is none.
C28_PriceWindow ==
    last.op = "get_crop_price" =>
       LET day == ValidDay(last.harvest_date)
           good == IF day # None
                   THEN {p \in DOMAIN crop_prices :
                           ActivePriceFor(p) /\ WindowContains(p, day[1])}
                   ELSE {p \in DOMAIN crop_prices : ActivePriceFor(p)}
       IN (day # None \/ last.harvest_date = NoDate) =>
             /\ ~last.raised
             /\ IF good = {} THEN last.price = 0 ELSE last.price \in good

\* A call with a date that found no row although an active row of the crop
\* and district exists, its window not containing the date.
C28_Witness ==
    /\ last.op = "get_crop_price"
    /\ ValidDay(last.harvest_date) # None
    /\ last.price = 0
    /\ \E p \in DOMAIN crop_prices :
         /\ ActivePriceFor(p)
         /\ crop_prices[p].valid_to # None
         /\ crop_prices[p].valid_to[1] < ValidDay(last.harvest_date)[1]

\* A call with a date that returned a row with a window on both sides.
C28_WitnessFound ==
    /\ last.op = "get_crop_price"
    /\ ValidDay(last.harvest_date) # None
    /\ last.price # 0
    /\ crop_prices[last.price].valid_from # None
    /\ crop_prices[last.price].valid_to # None

\* C29: get_crop_price called with a date string that cannot be parsed
\* raises nothing and returns what the lookup without a date returns: an
\* active row of the crop and district, whatever its window, or None when
\* there is none.
C29_UnparsedDate ==
    (/\ last.op = "get_crop_price"
     /\ last.harvest_date.type = "str"
     /\ strptime(last.harvest_date.text) = None) =>
       LET any == {p \in DOMAIN crop_prices : ActivePriceFor(p)}
       IN /\ ~last.raised
          /\ IF any = {} THEN last.price = 0 ELSE last.price \in any

\* A call with a string that does not parse returned a row whose window
\* is closed on both sides.
C29_Witness ==
    /\ last.op = "get_crop_price"
    /\ last.harvest_date.type = "str"
    /\ last.harvest_date.text # ""
    /\ strptime(last.harvest_date.text) = None
    /\ last.price # 0
    /\ crop_prices[last.price].valid_from # None
    /\ crop_prices[last.price].valid_to # None

(* ---------------- claims on the writers of the counters --------------- *)
\* C30: the counters of a quota change only as allocate_area or
\* release_area change them: the commit of a start request on the quota
\* leaves what allocate_area(area) leaves on the row as it is at that
\* moment, and does not happen where allocate_area would raise; a
\* cancellation leaves what release_area leaves; no other step (admin edit,
\* status update) changes them.
C30_OnlyThroughLedger ==
    [][\A i \in QuotaIds :
         (quotas[i].present /\ quotas'[i].present) =>
            /\ \A r \in ReqIds :
                 (Committing(r) /\ reqs[r].quota_id = i) =>
                    LET a == allocate_area(quotas[i], reqs[r].area, TRUE)
                    IN ~a.raised /\ Counters(quotas'[i]) = Counters(a.q)
            /\ Counters(quotas'[i]) # Counters(quotas[i]) =>
                 \/ \E r \in ReqIds : Committing(r) /\ reqs[r].quota_id = i
                 \/ \E c \in CultIds :
                      /\ last'.op = "cancel" /\ last'.who = c
                      /\ cults[c].quota_id = i
                      /\ Counters(quotas'[i]) =
                            Counters(release_area(quotas[i],
                                                  cults[c].area_used, TRUE))
      ]_vars

(* --------------------- claims on the lifecycle ------------------------ *)
\* The moves of the status the lifecycle allows.
AllowedMove(from, to) ==
    \/ from = "planned" /\ to \in {"active", "cancelled"}
    \/ from = "active" /\ to \in {"harvested", "failed", "cancelled"}

\* C16: the status of a cultivation only moves planned -> active ->
\* {harvested, failed} or from planned / active to cancelled; once it is
\* harvested, failed or cancelled no operation (update_status,
\* cancel_cultivation) changes it again.
C16_StatusLifecycle ==
    [][\A c \in CultIds :
         cults'[c].status # cults[c].status
           => AllowedMove(cults[c].status, cults'[c].status)
      ]_vars

\* C17: cancel_cultivation on a planned or active cultivation with
\* area_used = A that was allocated against quota q decreases
\* q.allocated_area by exactly A and q.allocated_farmer_count by exactly 1
\* and sets the status to cancelled.
C17_CancelReleases ==
    [][\A c \in CultIds :
         (/\ last' = CancelAnswer(c, FALSE) /\ last' # last
          /\ cults[c].status \in {"planned", "active"}
          /\ cults[c].quota_id # 0) =>
            LET q == cults[c].quota_id
            IN /\ cults'[c].status = "cancelled"
               /\ quotas'[q].allocated_area =
                    quotas[q].allocated_area - cults[c].area_used
               /\ quotas'[q].allocated_farmer_count =
                    quotas[q].allocated_farmer_count - 1
      ]_vars

\* C18: cancel_cultivation on a harvested cultivation always fails, and
\* then the cultivation's status, the quota's allocated_area and
\* allocated_farmer_count and every legacy limit's counters are unchanged.
C18_CancelHarvestedFails ==
    [][/\ \A c \in CultIds :
            cults[c].status = "harvested" => cults'[c].status # "cancelled"
       /\ (last' # last /\ last'.op = "cancel") =>
            /\ cults[last'.who].status = "harvested" => last'.raised
            /\ last'.raised =>
                 cults' = cults /\ quotas' = quotas /\ limits' = limits
      ]_vars

\* The cancellation of a harvested cultivation has just raised; the
\* cultivation is still harvested and its area still allocated.
C18_Witness ==
    /\ last.op = "cancel" /\ last.raised
    /\ cults[last.who].status = "harvested"
    /\ cults[last.who].quota_id = 1 /\ cults[last.who].area_used > 0
    /\ Len(cults) = 1
    /\ Counters(quotas[1]) = <<cults[last.who].area_used, 1>>

(* ---------------------- claims on the legacy path -------------------- *)
\* No active quota matches the land and the crop.
NoQuotaFor(l, crop) == find_matching_quota(quotas, Lands[l], crop) = {}

\* The active region limits for the land's district and the crop.
LimitsFor(l, crop) == ActiveLimits(limits, crop, Lands[l].district)

\* A start-cultivation request has just been refused with this message.
Refused(reason) == last' # last /\ last' = Answer(FALSE, reason)

\* C15: when no active quota matches the land and crop, the request is
\* gated by the (active) legacy RegionLimit of the district and crop: it
\* does not pass when the area exceeds max_area - current_area_used or when
\* max_cultivation_count > 0 and current_cultivation_count has reached it,
\* and it is then refused for that limit.  When neither a quota nor a
\* limit exists the request is accepted (no check but the land size refuses
\* it), the cultivation is created without quota reference and no quota or
\* limit counter changes.
C15_LegacyGate ==
    [][/\ \A r \in ReqIds :
            (/\ reqs[r].pc = "idle" /\ reqs'[r].pc = "checked"
             /\ NoQuotaFor(r, reqs'[r].crop_name)) =>
               /\ reqs'[r].quota_id = 0
               /\ \A m \in LimitsFor(r, reqs'[r].crop_name) :
                    /\ reqs'[r].area <=
                         limits[m].max_area - limits[m].current_area_used
                    /\ ~(/\ limits[m].max_cultivation_count > 0
                         /\ limits[m].current_cultivation_count
                              >= limits[m].max_cultivation_count)
       /\ Refused("Region limit reached") =>
            \E l \in LandIds, crop \in Crops, m \in LimitIds :
               /\ NoQuotaFor(l, crop) /\ m \in LimitsFor(l, crop)
               /\ \/ limits[m].max_area - limits[m].current_area_used < MaxArea
                  \/ /\ limits[m].max_cultivation_count > 0
                     /\ limits[m].current_cultivation_count
                          >= limits[m].max_cultivation_count
       /\ (\A l \in LandIds, crop \in Crops :
              NoQuotaFor(l, crop) /\ LimitsFor(l, crop) = {}) =>
            /\ \A reason \in {"Region limit reached", "Quota is not active",
                                "Only remaining available", "Maximum per farmer"} :
                 ~Refused(reason)
            /\ \A r \in ReqIds :
                 Committing(r) =>
                    /\ cults'[Len(cults')].quota_id = 0
                    /\ Len(cults') = Len(cults) + 1
                    /\ quotas' = quotas /\ limits' = limits
      ]_vars

\* With no quota, a request has just been refused by the region limit,
\* whose area or farmer count is used up by the cultivation started before.
C15_Witness ==
    /\ last = Answer(FALSE, "Region limit reached")
    /\ \A i \in QuotaIds : ~quotas[i].present
    /\ limits[1].present /\ limits[1].is_active
    /\ Len(cults) = 1 /\ cults[1].quota_id = 0 /\ cults[1].area_used > 0
    /\ LimitCounters(limits[1]) = <<cults[1].area_used, 1>>

\* With neither a quota nor a limit, a cultivation has just been created
\* without quota reference.
C15_WitnessUnrestricted ==
    /\ last = Answer(TRUE, "Cultivation started successfully")
    /\ \A i \in QuotaIds : ~quotas[i].present
    /\ \A m \in LimitIds : ~limits[m].present
    /\ Len(cults) = 1 /\ cults[1].quota_id = 0 /\ cults[1].area_used > 0

(* ----------------------- the Ledger called directly ------------------- *)
LedgerInit ==
    /\ \E total \in TotalInputs, mpf \in MpfInputs, active \in BOOLEAN :
         quotas = [i \in QuotaIds |->
                     IF i = 1
                     THEN NewQuota(DistrictLoc, "Rice", total, mpf, active)
                     ELSE NoQuota]
    /\ limits = [i \in LimitIds |-> NoLimit]
    /\ cults = <<>>
    /\ reqs = [r \in ReqIds |-> IdleReq]
    /\ last = NoCall
    /\ EmptyMarket

LedgerAllocate(area, inc) ==
    /\ last.n < MaxLedgerOps
    /\ LET r == allocate_area(quotas[1], area, inc)
       IN /\ quotas' = [quotas EXCEPT ![1] = r.q]
          /\ last' = [NoCall EXCEPT
                        !.op = "allocate", !.n = last.n + 1, !.area = area,
                        !.flag = inc, !.raised = r.raised,
                        !.before = Counters(quotas[1])]
    /\ UNCHANGED <<limits, cults, reqs>>
    /\ UNCHANGED market

LedgerRelease(area, dec) ==
    /\ last.n < MaxLedgerOps
    /\ quotas' = [quotas EXCEPT ![1] = release_area(quotas[1], area, dec)]
    /\ last' = [NoCall EXCEPT
                  !.op = "release", !.n = last.n + 1, !.area = area,
                  !.flag = dec, !.before = Counters(quotas[1])]
    /\ UNCHANGED <<limits, cults, reqs>>
    /\ UNCHANGED market

LedgerAvailable(area) ==
    /\ last.n < MaxLedgerOps
    /\ LET r == is_quota_available(quotas[1], area)
       IN last' = [NoCall EXCEPT
                     !.op = "available", !.n = last.n + 1, !.area = area,
                     !.ok = r.ok, !.reason = r.reason,
                     !.before = Counters(quotas[1])]
    /\ UNCHANGED <<quotas, limits, cults, reqs>>
    /\ UNCHANGED market

LedgerNext ==
    \/ \E area \in AreaInputs, inc \in BOOLEAN : LedgerAllocate(area, inc)
    \/ \E area \in AreaInputs, dec \in BOOLEAN : LedgerRelease(area, dec)
    \/ \E area \in AreaInputs : LedgerAvailable(area)

SpecLedger == LedgerInit /\ [][LedgerNext]_vars

(* ------------------------ claims on the Ledger ------------------------ *)
IsCall(op) == last'.op = op /\ last'.n = last.n + 1

\* C7: allocate_area fails and leaves both counters unchanged when
\* allocated_area + area > total_allowed_area; otherwise allocated_area
\* grows by exactly area and allocated_farmer_count by exactly 1 iff
\* increment_farmer_count is true.  allocated_area + area =
\* total_allowed_area succeeds.
C7_AllocateContract ==
    [][IsCall("allocate") =>
         LET q == quotas[1]
             q2 == quotas'[1]
             a == last'.area
         IN IF q.allocated_area + a > q.total_allowed_area
            THEN last'.raised /\ Counters(q2) = Counters(q)
            ELSE /\ ~last'.raised
                 /\ q2.allocated_area = q.allocated_area + a
                 /\ q2.allocated_farmer_count =
                      q.allocated_farmer_count + (IF last'.flag THEN 1 ELSE 0)
      ]_vars

\* An allocation of a positive area that fills the quota exactly succeeded.
C7_Witness ==
    /\ last.op = "allocate" /\ ~last.raised /\ last.flag /\ last.area > 0
    /\ quotas[1].allocated_area = quotas[1].total_allowed_area
    /\ quotas[1].allocated_farmer_count = last.before[2] + 1

\* C8: release_area sets allocated_area to max(0, allocated_area - area)
\* and, when decrement_farmer_count is true, allocated_farmer_count to
\* max(0, allocated_farmer_count - 1); from non-negative counters neither
\* counter is negative afterwards.
C8_ReleaseClamp ==
    [][IsCall("release") =>
         LET q == quotas[1]
             q2 == quotas'[1]
             d == q.allocated_area - last'.area
             c == q.allocated_farmer_count - 1
         IN /\ q2.allocated_area = (IF d < 0 THEN 0 ELSE d)
            /\ q2.allocated_farmer_count =
                 (IF last'.flag THEN (IF c < 0 THEN 0 ELSE c)
                  ELSE q.allocated_farmer_count)
            /\ (q.allocated_area >= 0 /\ q.allocated_farmer_count >= 0
                  => q2.allocated_area >= 0 /\ q2.allocated_farmer_count >= 0)
      ]_vars

\* A release of more than was allocated, with no farmer counted: both
\* counters were floored at zero.
C8_Witness ==
    /\ last.op = "release" /\ last.flag
    /\ last.before[1] >= 0 /\ last.before[1] - last.area < 0
    /\ last.before[2] = 0
    /\ Counters(quotas[1]) = <<0, 0>>

\* C9: after a successful allocate_area(A, increment_farmer_count = true),
\* release_area(A, decrement_farmer_count = true) restores allocated_area
\* and allocated_farmer_count to their values before the allocation.
C9_RoundTrip ==
    [][(/\ last.op = "allocate" /\ ~last.raised /\ last.flag
        /\ IsCall("release") /\ last'.flag /\ last'.area = last.area)
         => Counters(quotas'[1]) = last.before
      ]_vars

\* C10: is_quota_available accepts exactly when the quota is active,
\* requested_area <= total_allowed_area - allocated_area and
\* (max_per_farmer is unset or requested_area <= max_per_farmer); every
\* rejection carries a reason.
C10_Available ==
    last.op = "available" =>
        LET q == quotas[1]
        IN /\ last.ok <=>
                /\ q.is_active
                /\ last.area <= q.total_allowed_area - q.allocated_area
                /\ (q.max_per_farmer = None
                      \/ last.area <= q.max_per_farmer[1])
           /\ (~last.ok => last.reason # "")

====
